---- MODULE Spec2Model ----
(***************************************************************************)
(* A model of the qPCR delta-delta-CT pipeline of txt2gp:                  *)
(*   parsed TSV dataset -> extractGeneData / groupIntoReplicas             *)
(*                      -> processAllGenes -> generateAllOutputs,          *)
(* and of the application around it: the state manager, the handlers of    *)
(* the App class and the debounced inputs (AppSpec).                       *)
(*                                                                         *)
(* Text is a sequence of one-character strings, so that trimming, the      *)
(* marker-row pattern, header matching and parseFloat are computed on the  *)
(* characters.  A JavaScript number is a record [k, n, d]:                 *)
(*   k = "fin"  : the rational n/d (d > 0, lowest terms)                   *)
(*   k = "root" : sqrt(n/d), n/d > 0 not the square of a rational          *)
(*   k = "pow2" : 2^(n/d), n/d not an integer                              *)
(*   k = "inf"  : +Infinity (n = 1) or -Infinity (n = -1)                  *)
(*   k = "nan"  : NaN                                                      *)
(* Arithmetic is exact where the result has one of these forms; it is left *)
(* undefined elsewhere (TLC stops if such a case is ever evaluated).       *)
(* Rounding error and overflow of IEEE doubles and the sign of zero are    *)
(* not modelled.                                                           *)
(***************************************************************************)
EXTENDS Integers, Sequences, FiniteSets, TLC

VARIABLES rawData, config, geneDataMap, processingResults, outputResults, pc, error,
          call, ret, app

vars == <<rawData, config, geneDataMap, processingResults, outputResults, pc, error,
          call, ret, app>>

(***************************************************************************)
(* Bounds of the model.                                                    *)
(***************************************************************************)
MaxRows == 4
MaxReplica == 2
MaxSamples == 2

(***************************************************************************)
(* Text.                                                                   *)
(***************************************************************************)
Digits == <<"0", "1", "2", "3", "4", "5", "6", "7", "8", "9">>

Upper == <<"A", "B", "C", "D", "E", "F", "G", "H", "I", "J", "K", "L", "M",
           "N", "O", "P", "Q", "R", "S", "T", "U", "V", "W", "X", "Y", "Z">>

Lower == <<"a", "b", "c", "d", "e", "f", "g", "h", "i", "j", "k", "l", "m",
           "n", "o", "p", "q", "r", "s", "t", "u", "v", "w", "x", "y", "z">>

WhiteSpace == {" ", "\t"}

IsDigit(c) == \E i \in 1..10 : Digits[i] = c

DigitVal(c) == (CHOOSE i \in 1..10 : Digits[i] = c) - 1

ToLowerChar(c) ==
    IF \E i \in 1..26 : Upper[i] = c
    THEN Lower[CHOOSE i \in 1..26 : Upper[i] = c]
    ELSE c

\* String.prototype.toLowerCase
ToLowerCase(s) == [i \in 1..Len(s) |-> ToLowerChar(s[i])]

\* String.prototype.trim
Trim(s) ==
    LET keep == {i \in 1..Len(s) : s[i] \notin WhiteSpace}
    IN  IF keep = {} THEN <<>>
        ELSE SubSeq(s, CHOOSE i \in keep : \A j \in keep : i <= j,
                       CHOOSE i \in keep : \A j \in keep : i >= j)

\* String.prototype.includes
Includes(s, sub) ==
    \E i \in 1..(Len(s) - Len(sub) + 1) : SubSeq(s, i, i + Len(sub) - 1) = sub

StartsWith(s, p) == Len(s) >= Len(p) /\ SubSeq(s, 1, Len(p)) = p

\* The value of a property that an object does not have.
Undefined == <<"undefined">>

\* row[h]
Field(row, h) == IF h \in DOMAIN row THEN row[h] ELSE Undefined

NameHeader == <<"N", "a", "m", "e">>

\* Length of the longest prefix of s made of digits.
DigitPrefixLen(s) ==
    IF \A i \in 1..Len(s) : IsDigit(s[i]) THEN Len(s)
    ELSE (CHOOSE i \in 1..Len(s) : ~IsDigit(s[i]) /\ \A j \in 1..(i - 1) : IsDigit(s[j])) - 1

RECURSIVE DigitsValue(_)
DigitsValue(s) ==
    IF s = <<>> THEN 0
    ELSE 10 * DigitsValue(SubSeq(s, 1, Len(s) - 1)) + DigitVal(s[Len(s)])

Min(a, b) == IF a <= b THEN a ELSE b

Max(a, b) == IF a >= b THEN a ELSE b

RECURSIVE IntPow(_, _)
IntPow(b, e) == IF e = 0 THEN 1 ELSE b * IntPow(b, e - 1)

(***************************************************************************)
(* Numbers.                                                                *)
(***************************************************************************)
RECURSIVE GCD(_, _)
GCD(a, b) == IF b = 0 THEN a ELSE GCD(b, a % b)

Abs(x) == IF x < 0 THEN -x ELSE x

NaN == [k |-> "nan", n |-> 0, d |-> 0]

Infinity(s) == [k |-> "inf", n |-> s, d |-> 0]

\* The rational n/d (d # 0) in lowest terms.
Rat(n, d) ==
    LET g == GCD(Abs(n), Abs(d))
        s == IF d < 0 THEN -1 ELSE 1
    IN  [k |-> "fin", n |-> (s * n) \div g, d |-> (s * d) \div g]

Zero == Rat(0, 1)

One == Rat(1, 1)

IsNaN(x) == x.k = "nan"

IsFinite(x) == x.k \in {"fin", "root", "pow2"}

\* -x
Neg(x) ==
    CASE x.k = "nan" -> NaN
      [] x.k = "inf" -> Infinity(-x.n)
      [] x.k = "fin" -> Rat(-x.n, x.d)

\* a + b
Add(a, b) ==
    CASE a.k = "nan" \/ b.k = "nan" -> NaN
      [] a.k = "inf" /\ b.k = "inf" -> IF a.n = b.n THEN a ELSE NaN
      [] a.k = "inf" /\ b.k # "nan" /\ b.k # "inf" -> a
      [] b.k = "inf" /\ a.k # "nan" /\ a.k # "inf" -> b
      [] a.k = "fin" /\ b.k = "fin" ->
            LET l == (a.d * b.d) \div GCD(a.d, b.d)
            IN  Rat(a.n * (l \div a.d) + b.n * (l \div b.d), l)
      [] a.k \in {"root", "pow2"} /\ b = Zero -> a
      [] b.k \in {"root", "pow2"} /\ a = Zero -> b

\* a - b
Sub(a, b) == Add(a, Neg(b))

Sign(x) == IF x.k \in {"root", "pow2"} THEN 1
           ELSE IF x.n > 0 THEN 1 ELSE IF x.n < 0 THEN -1 ELSE 0

\* a > 0
GtZero(x) == x.k # "nan" /\ Sign(x) > 0

ISqrt(n) == CHOOSE y \in 0..n : y * y <= n /\ n < (y + 1) * (y + 1)

IsSquare(n) == ISqrt(n) * ISqrt(n) = n

\* The non-negative square root of the rational n/d >= 0.
RootOf(n, d) ==
    LET q == Rat(n, d)
    IN  IF IsSquare(q.n) /\ IsSquare(q.d)
        THEN Rat(ISqrt(q.n), ISqrt(q.d))
        ELSE [k |-> "root", n |-> q.n, d |-> q.d]

\* Math.sqrt
Sqrt(x) ==
    CASE x.k = "nan" -> NaN
      [] x.k = "inf" -> IF x.n > 0 THEN x ELSE NaN
      [] x.k = "fin" -> IF x.n < 0 THEN NaN ELSE RootOf(x.n, x.d)

\* Math.pow(x, 2)
Square(x) ==
    CASE x.k = "nan" -> NaN
      [] x.k = "inf" -> Infinity(1)
      [] x.k = "fin" -> Rat(x.n * x.n, x.d * x.d)
      [] x.k = "root" -> Rat(x.n, x.d)

\* a / b
Div(a, b) ==
    CASE a.k = "nan" \/ b.k = "nan" -> NaN
      [] a.k = "inf" /\ b.k = "inf" -> NaN
      [] a.k = "inf" /\ b.k # "nan" /\ b.k # "inf" ->
            Infinity(IF Sign(b) < 0 THEN -a.n ELSE a.n)
      [] b.k = "inf" /\ a.k # "nan" /\ a.k # "inf" -> Zero
      [] a.k = "fin" /\ b.k = "fin" ->
            IF b.n = 0
            THEN IF a.n = 0 THEN NaN ELSE Infinity(Sign(a))
            ELSE Rat(a.n * b.d, a.d * b.n)
      [] a.k = "root" /\ b.k = "root" -> RootOf(a.n * b.d, a.d * b.n)
      [] a.k = "root" /\ b.k = "fin" ->
            IF b.n = 0 THEN Infinity(1)
            ELSE IF b.n > 0 THEN RootOf(a.n * b.d * b.d, a.d * b.n * b.n)
            ELSE Neg(RootOf(a.n * b.d * b.d, a.d * b.n * b.n))
      [] a.k = "fin" /\ b.k = "root" ->
            IF a.n >= 0 THEN RootOf(a.n * a.n * b.d, a.d * a.d * b.n)
            ELSE Neg(RootOf(a.n * a.n * b.d, a.d * a.d * b.n))
      [] a.k = "pow2" /\ b = One -> a

\* Math.pow(2, x)
Pow2(x) ==
    CASE x.k = "nan" -> NaN
      [] x.k = "inf" -> IF x.n > 0 THEN x ELSE Zero
      [] x.k = "fin" ->
            IF x.d = 1
            THEN IF x.n >= 0 THEN Rat(IntPow(2, x.n), 1) ELSE Rat(1, IntPow(2, -x.n))
            ELSE [k |-> "pow2", n |-> x.n, d |-> x.d]

\* Math.round(x): the nearest integer, a tie going up.
Round(x) ==
    CASE x.k \in {"nan", "inf"} -> x
      [] x.k = "fin" -> Rat((2 * x.n + x.d) \div (2 * x.d), 1)

\* a * b for a factor b that is a positive integer
MulInt(a, b) ==
    CASE a.k \in {"nan", "inf"} -> a
      [] a.k = "fin" -> Rat(a.n * b, a.d)

(***************************************************************************)
(* parseFloat: leading white space is skipped, then the longest prefix     *)
(* that is a decimal literal (or a signed "Infinity") is converted; NaN    *)
(* when there is no such prefix.                                           *)
(***************************************************************************)
TrimStart(s) ==
    LET keep == {i \in 1..Len(s) : s[i] \notin WhiteSpace}
    IN  IF keep = {} THEN <<>>
        ELSE SubSeq(s, CHOOSE i \in keep : \A j \in keep : i <= j, Len(s))

InfinityText == <<"I", "n", "f", "i", "n", "i", "t", "y">>

\* Length of the exponent part ("e", an optional sign, digits) s starts with, or 0.
ExponentLen(s) ==
    IF s = <<>> \/ s[1] \notin {"e", "E"} THEN 0
    ELSE LET t == Tail(s)
             signed == t # <<>> /\ t[1] \in {"+", "-"}
             ds == IF signed THEN Tail(t) ELSE t
         IN  IF DigitPrefixLen(ds) = 0 THEN 0
             ELSE 1 + (IF signed THEN 1 ELSE 0) + DigitPrefixLen(ds)

\* The value of mantissa * 10^e; beyond the range of a double it is Infinity or 0.
Scale10(mant, e) ==
    IF mant.n = 0 THEN Zero
    ELSE IF e > 308 THEN Infinity(Sign(mant))
    ELSE IF e < -400 THEN Zero
    ELSE IF e >= 0 THEN Rat(mant.n * IntPow(10, e), mant.d)
    ELSE Rat(mant.n, mant.d * IntPow(10, -e))

\* The value of the literal whose mantissa is the first ip digits of body and,
\* if a "." follows, the fp digits after it; `rest` is what follows the mantissa.
ParseDecimal(body, sgn, ip, fp, rest) ==
    IF ip = 0 /\ fp = 0 THEN NaN
    ELSE IF ExponentLen(rest) = 0
    THEN Rat(sgn * (DigitsValue(SubSeq(body, 1, ip)) * IntPow(10, fp)
                    + DigitsValue(SubSeq(body, ip + 2, ip + 1 + fp))),
             IntPow(10, fp))
    ELSE Scale10(Rat(sgn * (DigitsValue(SubSeq(body, 1, ip)) * IntPow(10, fp)
                            + DigitsValue(SubSeq(body, ip + 2, ip + 1 + fp))),
                     IntPow(10, fp)),
                 (IF rest[2] = "-" THEN -1 ELSE 1)
                 * DigitsValue(SubSeq(rest, IF rest[2] \in {"+", "-"} THEN 3 ELSE 2,
                                      ExponentLen(rest))))

\* The fraction digits: those after a "." that follows the ip integer digits.
ParseFraction(body, sgn, ip, hasDot, fp) ==
    ParseDecimal(body, sgn, ip, fp,
                 SubSeq(body, ip + (IF hasDot THEN fp + 2 ELSE 1), Len(body)))

ParseMantissa(body, sgn, ip) ==
    ParseFraction(body, sgn, ip,
                  ip < Len(body) /\ body[ip + 1] = ".",
                  IF ip < Len(body) /\ body[ip + 1] = "."
                  THEN DigitPrefixLen(SubSeq(body, ip + 2, Len(body)))
                  ELSE 0)

ParseUnsigned(body, sgn) ==
    IF StartsWith(body, InfinityText) THEN Infinity(sgn)
    ELSE ParseMantissa(body, sgn, DigitPrefixLen(body))

ParseSigned(s) ==
    IF s # <<>> /\ s[1] \in {"+", "-"}
    THEN ParseUnsigned(Tail(s), IF s[1] = "-" THEN -1 ELSE 1)
    ELSE ParseUnsigned(s, 1)

ParseFloat(text) ==
    IF text = Undefined THEN NaN ELSE ParseSigned(TrimStart(text))

(***************************************************************************)
(* The parsed dataset: [title, headers, rows]; a row maps each header to a *)
(* text.                                                                   *)
(***************************************************************************)
SampleWord == <<"s", "a", "m", "p", "l", "e">>

\* Variant of shouldIgnoreRow: the pattern /^Sample\d+$/i, without white space.
shouldIgnoreRowNoSpace(row) ==
    LET raw == Field(row, NameHeader)
        name == IF raw = Undefined THEN <<>> ELSE raw
        t == Trim(name)
    IN  /\ Len(t) >= 7
        /\ ToLowerCase(SubSeq(t, 1, 6)) = SampleWord
        /\ \A i \in 7..Len(t) : IsDigit(t[i])

\* /^Sample\s*\d+$/i.test(name.trim())
shouldIgnoreRow(row) ==
    LET raw == Field(row, NameHeader)
        name == IF raw = Undefined THEN <<>> ELSE raw
        t == Trim(name)
    IN  /\ Len(t) >= 7
        /\ ToLowerCase(SubSeq(t, 1, 6)) = SampleWord
        /\ \E k \in 6..(Len(t) - 1) :
              /\ \A i \in 7..k : t[i] \in WhiteSpace
              /\ \A i \in (k + 1)..Len(t) : IsDigit(t[i])

Null == <<"null">>

\* A value that an if-condition takes as true: neither null, undefined nor "".
Truthy(text) == text # Null /\ text # Undefined /\ text # <<>>

\* Array.prototype.find: the first element satisfying P, or undefined.
Find(seq, P(_)) ==
    IF \E i \in 1..Len(seq) : P(seq[i])
    THEN seq[CHOOSE i \in 1..Len(seq) : P(seq[i]) /\ \A j \in 1..(i - 1) : ~P(seq[j])]
    ELSE Undefined

ctColumnNames == << <<"c", "p">>, <<"c", "t">>, <<"c", "q">> >>

hasDecimalValues(data, header) ==
    \E r \in 1..Len(data.rows) :
        LET val == Field(data.rows[r], header)
            num == ParseFloat(val)
        IN  /\ Truthy(val)
            /\ ~IsNaN(num)
            /\ GtZero(num)
            /\ Includes(val, <<".">>)

detectCtColumn(data) ==
    LET exact(name) == Find(data.headers, LAMBDA h : ToLowerCase(h) = name)
        partial(name) == Find(data.headers, LAMBDA h : Includes(ToLowerCase(h), name))
        exactCp == exact(ctColumnNames[1])
        exactCt == exact(ctColumnNames[2])
        exactCq == exact(ctColumnNames[3])
        partialCp == partial(ctColumnNames[1])
        partialCt == partial(ctColumnNames[2])
        partialCq == partial(ctColumnNames[3])
        decimal == Find(data.headers, LAMBDA h : h # NameHeader /\ hasDecimalValues(data, h))
    IN  IF Truthy(exactCp) THEN exactCp
        ELSE IF Truthy(exactCt) THEN exactCt
        ELSE IF Truthy(exactCq) THEN exactCq
        ELSE IF Truthy(partialCp) THEN partialCp
        ELSE IF Truthy(partialCt) THEN partialCt
        ELSE IF Truthy(partialCq) THEN partialCq
        ELSE IF decimal # Undefined THEN decimal
        ELSE Null

\* seq.includes(x)
Contains(seq, x) == \E i \in 1..Len(seq) : seq[i] = x

\* data.headers.some(h => h.toLowerCase().includes("ct") || some row parses as a number)
hasCtColumn(data) ==
    \E i \in 1..Len(data.headers) :
        \/ Includes(ToLowerCase(data.headers[i]), <<"c", "t">>)
        \/ \E r \in 1..Len(data.rows) :
              ~IsNaN(ParseFloat(Field(data.rows[r], data.headers[i])))

validateTsvData(data) ==
    LET errors ==
            (IF ~Contains(data.headers, NameHeader)
             THEN <<[field |-> "headers", message |-> "Missing required Name column in data"]>>
             ELSE <<>>)
            \o (IF Len(data.headers) < 2 /\ ~hasCtColumn(data)
                THEN <<[field |-> "headers", message |-> "Data must contain CT value columns"]>>
                ELSE <<>>)
            \o (IF Len(data.rows) = 0
                THEN <<[field |-> "rows", message |-> "No data rows found in file"]>>
                ELSE <<>>)
    IN  [isValid |-> Len(errors) = 0, errors |-> errors]

\* processFile hands the parsed data on only when validation reports no error.
processFileAccepts(data) == validateTsvData(data).isValid

(***************************************************************************)
(* A Map is the sequence of its entries [key, value] in insertion order.   *)
(***************************************************************************)
MapKeys(m) == [i \in 1..Len(m) |-> m[i].key]

MapHas(m, key) == \E i \in 1..Len(m) : m[i].key = key

MapGet(m, key) == m[CHOOSE i \in 1..Len(m) : m[i].key = key].value

MapSet(m, key, value) ==
    IF MapHas(m, key)
    THEN [i \in 1..Len(m) |-> IF m[i].key = key THEN [key |-> key, value |-> value] ELSE m[i]]
    ELSE Append(m, [key |-> key, value |-> value])

(***************************************************************************)
(* CT calculator.                                                          *)
(***************************************************************************)
\* Variant of ExtractRow: records the 1-based position of the row.
ExtractRowOneBased(geneMap, row, index, ctColumn) ==
    LET geneName == Field(row, NameHeader)
        ctValue == ParseFloat(Field(row, ctColumn))
        withGene ==
            IF MapHas(geneMap, geneName) THEN geneMap
            ELSE MapSet(geneMap, geneName,
                        [name |-> geneName, measurements |-> <<>>, replicaGroups |-> <<>>])
        geneData == MapGet(withGene, geneName)
    IN  IF shouldIgnoreRow(row) THEN geneMap
        ELSE IF ~Truthy(geneName) THEN geneMap
        ELSE IF IsNaN(ctValue) THEN geneMap
        ELSE MapSet(withGene, geneName,
                    [geneData EXCEPT !.measurements =
                        Append(@, [value |-> ctValue, rowIndex |-> index + 1])])

\* The forEach callback of extractGeneData applied to row `index` (0-based).
ExtractRow(geneMap, row, index, ctColumn) ==
    LET geneName == Field(row, NameHeader)
        ctValue == ParseFloat(Field(row, ctColumn))
        withGene ==
            IF MapHas(geneMap, geneName) THEN geneMap
            ELSE MapSet(geneMap, geneName,
                        [name |-> geneName, measurements |-> <<>>, replicaGroups |-> <<>>])
        geneData == MapGet(withGene, geneName)
    IN  IF shouldIgnoreRow(row) THEN geneMap
        ELSE IF ~Truthy(geneName) THEN geneMap
        ELSE IF IsNaN(ctValue) THEN geneMap
        ELSE MapSet(withGene, geneName,
                    [geneData EXCEPT !.measurements =
                        Append(@, [value |-> ctValue, rowIndex |-> index])])

RECURSIVE ExtractRows(_, _, _, _)
ExtractRows(geneMap, rows, i, ctColumn) ==
    IF i > Len(rows) THEN geneMap
    ELSE ExtractRows(ExtractRow(geneMap, rows[i], i - 1, ctColumn), rows, i + 1, ctColumn)

\* extractGeneData throws "Could not detect CT value column".
extractGeneDataThrows(data) == ~Truthy(detectCtColumn(data))

\* The map extractGeneData returns when it does not throw.
extractGeneData(data) == ExtractRows(<<>>, data.rows, 1, detectCtColumn(data))

RECURSIVE GroupLoop(_, _, _, _, _)
GroupLoop(measurements, replicaCount, sampleNames, i, groups) ==
    LET startIndex == i * replicaCount
        endIndex == startIndex + replicaCount
    IN  IF i >= Len(sampleNames) THEN groups
        ELSE IF endIndex > Len(measurements) THEN groups
        ELSE GroupLoop(measurements, replicaCount, sampleNames, i + 1,
                Append(groups,
                    [sampleName |-> sampleNames[i + 1],
                     sampleNumber |-> i + 1,
                     ctValues |-> [j \in 1..(endIndex - startIndex) |->
                                      measurements[startIndex + j].value]]))

\* Variant of groupIntoReplicas: group i starts at measurement i, not i * replicaCount.
groupIntoReplicasOverlapping(measurements, replicaCount, sampleNames) ==
    [i \in 1..Min(Len(sampleNames), Len(measurements) \div replicaCount) |->
        [sampleName |-> sampleNames[i],
         sampleNumber |-> i,
         ctValues |-> [j \in 1..replicaCount |-> measurements[(i - 1) + j].value]]]

\* Variant of groupIntoReplicas: a trailing group is cut short instead of dropped.
groupIntoReplicasTruncating(measurements, replicaCount, sampleNames) ==
    [i \in 1..Min(Len(sampleNames),
                  (Len(measurements) + replicaCount - 1) \div replicaCount) |->
        [sampleName |-> sampleNames[i],
         sampleNumber |-> i,
         ctValues |-> [j \in 1..Min(replicaCount, Len(measurements) - (i - 1) * replicaCount) |->
                          measurements[(i - 1) * replicaCount + j].value]]]

groupIntoReplicas(measurements, replicaCount, sampleNames) ==
    GroupLoop(measurements, replicaCount, sampleNames, 0, <<>>)

buildGeneDataWithGroups(data, replicaCount, sampleNames) ==
    LET geneMap == extractGeneData(data)
    IN  [i \in 1..Len(geneMap) |->
            [key |-> geneMap[i].key,
             value |-> [geneMap[i].value EXCEPT !.replicaGroups =
                          groupIntoReplicas(geneMap[i].value.measurements,
                                            replicaCount, sampleNames)]]]

(***************************************************************************)
(* Statistics.                                                             *)
(***************************************************************************)
\* F applied to the value of x, which is computed once (a const declaration).
With(x, F(_)) == CHOOSE r \in {F(v) : v \in {x}} : TRUE

\* values.reduce((acc, val) => acc + val, 0)
RECURSIVE SumFrom(_, _, _)
SumFrom(values, i, acc) ==
    IF i > Len(values) THEN acc ELSE SumFrom(values, i + 1, Add(acc, values[i]))

mean(values) ==
    IF Len(values) = 0 THEN Zero
    ELSE Div(SumFrom(values, 1, Zero), Rat(Len(values), 1))

standardDeviation(values) ==
    IF Len(values) < 2 THEN Zero
    ELSE LET avg == mean(values)
             squaredDiffs == [i \in 1..Len(values) |-> Square(Sub(values[i], avg))]
             variance == Div(SumFrom(squaredDiffs, 1, Zero), Rat(Len(values) - 1, 1))
         IN  Sqrt(variance)

combinedStandardDeviation(std1, std2) == Sqrt(Add(Square(std1), Square(std2)))

sem(combinedStd, n1, n2) ==
    IF n1 + n2 = 0 THEN Zero
    ELSE Div(combinedStd, Sqrt(Rat(n1 + n2, 2)))

\* Variant of foldChange: 2^deltaDeltaCt.
foldChangeWithoutNegation(deltaDeltaCt) == Pow2(deltaDeltaCt)

foldChange(deltaDeltaCt) == Pow2(Neg(deltaDeltaCt))

roundTo(value, decimals) ==
    LET factor == IntPow(10, decimals)
    IN  Div(Round(MulInt(value, factor)), Rat(factor, 1))

(***************************************************************************)
(* Delta calculator.                                                       *)
(***************************************************************************)
\* First pass of calculateProcessingRows: the delta-CT of every paired sample.
RECURSIVE FirstPass(_, _, _, _)
FirstPass(targetGroups, hkGroups, i, deltaCts) ==
    IF i > Len(targetGroups) THEN deltaCts
    ELSE IF i > Len(hkGroups) THEN FirstPass(targetGroups, hkGroups, i + 1, deltaCts)
    ELSE FirstPass(targetGroups, hkGroups, i + 1,
            Append(deltaCts, Sub(mean(targetGroups[i].ctValues), mean(hkGroups[i].ctValues))))

\* The summary row of one paired sample.
SummaryRow(targetGroup, hkGroup, referenceDeltaCt, replicaCount) ==
    With([ctMean |-> mean(targetGroup.ctValues),
          ctStd |-> standardDeviation(targetGroup.ctValues),
          hkMean |-> mean(hkGroup.ctValues),
          hkStd |-> standardDeviation(hkGroup.ctValues)],
         LAMBDA st :
    With([deltaCt |-> Sub(st.ctMean, st.hkMean),
          combinedStd |-> combinedStandardDeviation(st.ctStd, st.hkStd)],
         LAMBDA d :
    With(Sub(d.deltaCt, referenceDeltaCt),
         LAMBDA deltaDeltaCt :
        [sampleNumber |-> targetGroup.sampleNumber,
         sampleName |-> targetGroup.sampleName,
         ctValues |-> targetGroup.ctValues,
         ctStd |-> st.ctStd,
         ctMean |-> st.ctMean,
         hkCtValues |-> hkGroup.ctValues,
         hkCtStd |-> st.hkStd,
         hkCtMean |-> st.hkMean,
         deltaCt |-> d.deltaCt,
         deltaDeltaCt |-> deltaDeltaCt,
         combinedStd |-> d.combinedStd,
         foldChange |-> foldChange(deltaDeltaCt),
         sem |-> sem(d.combinedStd, replicaCount, replicaCount),
         isReplicaRow |-> FALSE])))

\* Variant of ReplicaRow: the raw value is also stored as the mean.
ReplicaRowKeepingMean(targetGroup, hkGroup, r) ==
    [sampleNumber |-> targetGroup.sampleNumber,
     sampleName |-> targetGroup.sampleName,
     ctValues |-> <<targetGroup.ctValues[r + 1]>>,
     ctStd |-> Zero,
     ctMean |-> targetGroup.ctValues[r + 1],
     hkCtValues |-> <<IF r + 1 <= Len(hkGroup.ctValues) THEN hkGroup.ctValues[r + 1] ELSE Zero>>,
     hkCtStd |-> Zero,
     hkCtMean |-> Zero,
     deltaCt |-> Zero,
     deltaDeltaCt |-> Zero,
     combinedStd |-> Zero,
     foldChange |-> Zero,
     sem |-> Zero,
     isReplicaRow |-> TRUE,
     replicaIndex |-> r]

\* The replica row of replicate r (0-based) of one paired sample.
ReplicaRow(targetGroup, hkGroup, r) ==
    [sampleNumber |-> targetGroup.sampleNumber,
     sampleName |-> targetGroup.sampleName,
     ctValues |-> <<targetGroup.ctValues[r + 1]>>,
     ctStd |-> Zero,
     ctMean |-> Zero,
     hkCtValues |-> <<IF r + 1 <= Len(hkGroup.ctValues) THEN hkGroup.ctValues[r + 1] ELSE Zero>>,
     hkCtStd |-> Zero,
     hkCtMean |-> Zero,
     deltaCt |-> Zero,
     deltaDeltaCt |-> Zero,
     combinedStd |-> Zero,
     foldChange |-> Zero,
     sem |-> Zero,
     isReplicaRow |-> TRUE,
     replicaIndex |-> r]

RECURSIVE ReplicaRows(_, _, _, _, _)
ReplicaRows(targetGroup, hkGroup, replicaCount, r, rows) ==
    IF r >= replicaCount THEN rows
    ELSE IF r < Len(targetGroup.ctValues)
    THEN ReplicaRows(targetGroup, hkGroup, replicaCount, r + 1,
                     Append(rows, ReplicaRow(targetGroup, hkGroup, r)))
    ELSE ReplicaRows(targetGroup, hkGroup, replicaCount, r + 1, rows)

\* Second pass of calculateProcessingRows.
RECURSIVE SecondPass(_, _, _, _, _, _)
SecondPass(targetGroups, hkGroups, referenceDeltaCt, replicaCount, i, rows) ==
    IF i > Len(targetGroups) THEN rows
    ELSE IF i > Len(hkGroups)
    THEN SecondPass(targetGroups, hkGroups, referenceDeltaCt, replicaCount, i + 1, rows)
    ELSE SecondPass(targetGroups, hkGroups, referenceDeltaCt, replicaCount, i + 1,
            ReplicaRows(targetGroups[i], hkGroups[i], replicaCount, 0,
                Append(rows, SummaryRow(targetGroups[i], hkGroups[i],
                                        referenceDeltaCt, replicaCount))))

\* Variant of ReferenceDeltaCt: the delta-CT of the last paired sample.
ReferenceDeltaCtOfLast(targetGene, housekeeperGene) ==
    LET deltaCts == FirstPass(targetGene.replicaGroups, housekeeperGene.replicaGroups, 1, <<>>)
    IN  IF Len(deltaCts) > 0 THEN deltaCts[Len(deltaCts)] ELSE Zero

\* The delta-CT that calculateProcessingRows subtracts in every row.
ReferenceDeltaCt(targetGene, housekeeperGene) ==
    With(FirstPass(targetGene.replicaGroups, housekeeperGene.replicaGroups, 1, <<>>),
         LAMBDA deltaCts : IF Len(deltaCts) > 0 THEN deltaCts[1] ELSE Zero)

\* Variant of calculateProcessingRows: a target group without a reference group
\* at its index is paired with the last reference group.
calculateProcessingRowsPadded(targetGene, housekeeperGene, cfg) ==
    LET tg == targetGene.replicaGroups
        hg == housekeeperGene.replicaGroups
        padded == IF hg = <<>> THEN hg
                  ELSE [i \in 1..Max(Len(tg), Len(hg)) |-> hg[Min(i, Len(hg))]]
        deltaCts == FirstPass(tg, padded, 1, <<>>)
    IN  SecondPass(tg, padded, IF Len(deltaCts) > 0 THEN deltaCts[1] ELSE Zero,
                   cfg.replicaCount, 1, <<>>)

calculateProcessingRows(targetGene, housekeeperGene, cfg) ==
    SecondPass(targetGene.replicaGroups, housekeeperGene.replicaGroups,
               ReferenceDeltaCt(targetGene, housekeeperGene), cfg.replicaCount, 1, <<>>)

\* rows.find((r) => !r.isReplicaRow && P(r)) exists
HasMainRow(rows, P(_)) == \E i \in 1..Len(rows) : ~rows[i].isReplicaRow /\ P(rows[i])

\* rows.find((r) => !r.isReplicaRow && P(r))
FirstMainRow(rows, P(_)) ==
    rows[CHOOSE i \in 1..Len(rows) :
            /\ ~rows[i].isReplicaRow /\ P(rows[i])
            /\ \A j \in 1..(i - 1) : ~(~rows[j].isReplicaRow /\ P(rows[j]))]

processGene(targetGene, housekeeperGene, cfg) ==
    With(calculateProcessingRows(targetGene, housekeeperGene, cfg),
         LAMBDA rows :
             [geneName |-> targetGene.name,
              rows |-> rows,
              firstDeltaCt |-> IF HasMainRow(rows, LAMBDA r : TRUE)
                               THEN FirstMainRow(rows, LAMBDA r : TRUE).deltaCt
                               ELSE Zero])

\* processAllGenes throws "Housekeeper gene ... not found".
processAllGenesThrows(geneMap, housekeeperName) == ~MapHas(geneMap, housekeeperName)

RECURSIVE ProcessLoop(_, _, _, _, _)
ProcessLoop(geneMap, housekeeperName, cfg, i, results) ==
    IF i > Len(geneMap) THEN results
    ELSE IF geneMap[i].key = housekeeperName
    THEN ProcessLoop(geneMap, housekeeperName, cfg, i + 1, results)
    ELSE ProcessLoop(geneMap, housekeeperName, cfg, i + 1,
            MapSet(results, geneMap[i].key,
                   processGene(geneMap[i].value, MapGet(geneMap, housekeeperName), cfg)))

\* Variant of processAllGenes: the housekeeper is processed like any other gene.
processAllGenesKeepingHousekeeper(geneMap, housekeeperName, cfg) ==
    [i \in 1..Len(geneMap) |->
        [key |-> geneMap[i].key,
         value |-> processGene(geneMap[i].value, MapGet(geneMap, housekeeperName), cfg)]]

\* The map processAllGenes returns when it does not throw.
processAllGenes(geneMap, housekeeperName, cfg) ==
    ProcessLoop(geneMap, housekeeperName, cfg, 1, <<>>)

(***************************************************************************)
(* Normalizer.                                                             *)
(***************************************************************************)
\* seq.filter(P)
Filter(seq, P(_)) == SelectSeq(seq, P)

\* The fold change of the summary row named `name`, 0 when there is none.
FoldChangeOf(result, name) ==
    IF HasMainRow(result.rows, LAMBDA r : r.sampleName = name)
    THEN FirstMainRow(result.rows, LAMBDA r : r.sampleName = name).foldChange
    ELSE Zero

\* Variant of buildFoldChangeTable: the observed samples are not cut to the
\* number of controls.
buildFoldChangeTableUntruncated(result, controls, allSamples) ==
    LET observedSamples == Filter(allSamples, LAMBDA s : ~Contains(controls, s))
        rowCount == Max(Len(controls), Len(observedSamples))
    IN  [i \in 1..rowCount |->
            LET controlName == IF i <= Len(controls) THEN controls[i] ELSE ""
                observedName == IF i <= Len(observedSamples) THEN observedSamples[i] ELSE ""
            IN  [controlName |-> controlName,
                 controlFoldChange |-> FoldChangeOf(result, controlName),
                 observedName |-> observedName,
                 observedFoldChange |-> FoldChangeOf(result, observedName)]]

buildFoldChangeTable(result, controls, allSamples) ==
    LET observed == Filter(allSamples, LAMBDA s : ~Contains(controls, s))
        observedCount == Min(Len(observed), Len(controls))
        observedSamples == SubSeq(observed, 1, observedCount)
        rowCount == Max(Len(controls), Len(observedSamples))
    IN  [i \in 1..rowCount |->
            LET controlName == IF i <= Len(controls) THEN controls[i] ELSE ""
                observedName == IF i <= Len(observedSamples) THEN observedSamples[i] ELSE ""
            IN  [controlName |-> controlName,
                 controlFoldChange |-> FoldChangeOf(result, controlName),
                 observedName |-> observedName,
                 observedFoldChange |-> FoldChangeOf(result, observedName)]]

\* Variant of calculateControlAverage: rows with fold change 0 are averaged too.
calculateControlAverageWithZeros(foldChangeRows) ==
    LET qualifying == Filter(foldChangeRows,
                             LAMBDA row : row.controlName # "" /\ ~IsNaN(row.controlFoldChange))
        controlValues == [i \in 1..Len(qualifying) |-> qualifying[i].controlFoldChange]
    IN  IF Len(controlValues) > 0 THEN mean(controlValues) ELSE One

calculateControlAverage(foldChangeRows) ==
    LET qualifying == Filter(foldChangeRows,
                             LAMBDA row : row.controlName # "" /\ GtZero(row.controlFoldChange))
        controlValues == [i \in 1..Len(qualifying) |-> qualifying[i].controlFoldChange]
    IN  IF Len(controlValues) > 0 THEN mean(controlValues) ELSE One

\* Variant of buildNormalizedTable: a control average of 0 is not replaced by 1.
buildNormalizedTableUnguarded(foldChangeRows, controlAverage) ==
    [i \in 1..Len(foldChangeRows) |->
        [controlName |-> foldChangeRows[i].controlName,
         normalizedControl |-> Div(foldChangeRows[i].controlFoldChange, controlAverage),
         observedName |-> foldChangeRows[i].observedName,
         normalizedObserved |-> Div(foldChangeRows[i].observedFoldChange, controlAverage)]]

buildNormalizedTable(foldChangeRows, controlAverage) ==
    LET divisor == IF controlAverage = Zero THEN One ELSE controlAverage
    IN  [i \in 1..Len(foldChangeRows) |->
            [controlName |-> foldChangeRows[i].controlName,
             normalizedControl |-> Div(foldChangeRows[i].controlFoldChange, divisor),
             observedName |-> foldChangeRows[i].observedName,
             normalizedObserved |-> Div(foldChangeRows[i].observedFoldChange, divisor)]]

\* Variant of generateGeneOutput: the table is normalized by the rounded average.
generateGeneOutputRoundingFirst(result, controls, allSamples) ==
    LET foldChangeRows == buildFoldChangeTable(result, controls, allSamples)
        controlAverage == roundTo(calculateControlAverage(foldChangeRows), 4)
        normalizedRows == buildNormalizedTable(foldChangeRows, controlAverage)
    IN  [geneName |-> result.geneName,
         foldChangeRows |-> foldChangeRows,
         controlAverage |-> controlAverage,
         normalizedRows |-> normalizedRows]

generateGeneOutput(result, controls, allSamples) ==
    LET foldChangeRows == buildFoldChangeTable(result, controls, allSamples)
        controlAverage == calculateControlAverage(foldChangeRows)
        normalizedRows == buildNormalizedTable(foldChangeRows, controlAverage)
    IN  [geneName |-> result.geneName,
         foldChangeRows |-> foldChangeRows,
         controlAverage |-> roundTo(controlAverage, 4),
         normalizedRows |-> normalizedRows]

RECURSIVE OutputLoop(_, _, _, _, _)
OutputLoop(results, controls, allSamples, i, outputs) ==
    IF i > Len(results) THEN outputs
    ELSE OutputLoop(results, controls, allSamples, i + 1,
            MapSet(outputs, results[i].key,
                   generateGeneOutput(results[i].value, controls, allSamples)))

generateAllOutputs(results, controls, allSamples) ==
    OutputLoop(results, controls, allSamples, 1, <<>>)

(***************************************************************************)
(* Inputs: the datasets and configurations the pipeline is run on.         *)
(***************************************************************************)
CpHeader == <<"C", "p">>

PosHeader == <<"P", "o", "s">>

GAPDH == <<"G", "A", "P", "D", "H">>

TP53 == <<"T", "P", "5", "3">>

ACTB == <<"A", "C", "T", "B">>

MarkerName == <<"S", "a", "m", "p", "l", "e", " ", "3">>

Ct20 == <<"2", "0">>

Ct22 == <<"2", "2", ".", "0">>

Ct25 == <<"2", "5">>

CtNA == <<"N", "A">>

CtInfinity == <<"I", "n", "f", "i", "n", "i", "t", "y">>

MkRow(name, ct) == (NameHeader :> name) @@ (CpHeader :> ct)

RowKinds ==
    { MkRow(GAPDH, Ct20), MkRow(GAPDH, Ct22),
      MkRow(TP53, Ct25), MkRow(TP53, CtNA),
      MkRow(ACTB, CtInfinity),
      MkRow(MarkerName, Ct25) }

SeqsUpTo(S, n) == UNION {[1..k -> S] : k \in 0..n}

\* Scenario A: GAPDH [20,20,20,22,22,22], TP53 [25 x 6], 2 samples x 3 replicas.
ScenarioAData ==
    [title |-> <<"A">>,
     headers |-> <<NameHeader, CpHeader>>,
     rows |-> << MkRow(GAPDH, Ct20), MkRow(GAPDH, Ct20), MkRow(GAPDH, Ct20),
                 MkRow(GAPDH, Ct22), MkRow(GAPDH, Ct22), MkRow(GAPDH, Ct22),
                 MkRow(TP53, Ct25), MkRow(TP53, Ct25), MkRow(TP53, Ct25),
                 MkRow(TP53, Ct25), MkRow(TP53, Ct25), MkRow(TP53, Ct25) >>]

ScenarioAConfig ==
    [replicaCount |-> 3, housekeeper |-> GAPDH,
     samples |-> <<"S1", "S2">>, controls |-> <<"S1">>]

\* A dataset in which no column is detected as the CT column.
NoCtData ==
    [title |-> <<"B">>,
     headers |-> <<NameHeader, PosHeader>>,
     rows |-> << (NameHeader :> GAPDH) @@ (PosHeader :> <<"1">>),
                 (NameHeader :> TP53) @@ (PosHeader :> <<"2">>) >>]

Datasets ==
    { [title |-> <<"T">>, headers |-> <<NameHeader, CpHeader>>, rows |-> rows] :
        rows \in SeqsUpTo(RowKinds, MaxRows) }
    \cup {NoCtData}

SampleNamePool == <<"S1", "S2", "S3", "S4", "S5", "S6">>

\* runProcessing does nothing while the sample list is empty.
SampleLists == {SubSeq(SampleNamePool, 1, k) : k \in 1..MaxSamples}

ControlLists == { <<"S1">> }

Configs ==
    [replicaCount : 1..MaxReplica,
     housekeeper : {GAPDH, ACTB},
     samples : SampleLists,
     controls : ControlLists]

(***************************************************************************)
(* The pipeline as a state machine: one action per stage.                  *)
(***************************************************************************)
\* The datasets that processed files deliver.
AcceptedDatasets == {d \in Datasets : processFileAccepts(d)}

\* The arguments of a direct call of an exported function; NoCall when the
\* pipeline is run instead.
NoResult == [geneName |-> <<>>, rows |-> <<>>, firstDeltaCt |-> Zero]

NoData == [title |-> <<>>, headers |-> <<>>, rows |-> <<>>]

NoCall ==
    [fn |-> "none", result |-> NoResult, controls |-> <<>>, allSamples |-> <<>>,
     foldChangeRows |-> <<>>, controlAverage |-> Zero, data |-> NoData]

\* The application around the pipeline as the constructors leave it: the
\* fields of AppState beyond the pipeline's (createInitialState), the input
\* elements of the page as lines of text, the rendered tabs and the debounce
\* timer ("none" for null, else the field whose handler the timeout runs).
FreshApp ==
    [availableGenes |-> <<>>, activeGeneTab |-> Null, validationErrors |-> <<>>,
     replicaInput |-> <<"3">>, sampleList |-> <<>>, controlList |-> <<>>,
     tabs |-> <<>>, debounceTimer |-> "none"]

Init ==
    /\ \/ rawData \in AcceptedDatasets /\ config \in Configs
       \/ rawData = ScenarioAData /\ config = ScenarioAConfig
    /\ call = NoCall
    /\ app = FreshApp
    /\ ret = Null
    /\ geneDataMap = <<>>
    /\ processingResults = <<>>
    /\ outputResults = <<>>
    /\ pc = "loaded"
    /\ error = ""

\* buildGeneDataWithGroups(rawData, replicaCount, samples)
BuildGeneData ==
    /\ pc = "loaded"
    /\ IF extractGeneDataThrows(rawData)
       THEN /\ error' = "Could not detect CT value column"
            /\ pc' = "failed"
            /\ UNCHANGED geneDataMap
       ELSE /\ geneDataMap' = buildGeneDataWithGroups(rawData, config.replicaCount, config.samples)
            /\ pc' = "grouped"
            /\ UNCHANGED error
    /\ UNCHANGED <<rawData, config, processingResults, outputResults, call, ret, app>>

\* processAllGenes(geneDataMap, housekeeper, config)
ProcessAll ==
    /\ pc = "grouped"
    /\ IF processAllGenesThrows(geneDataMap, config.housekeeper)
       THEN /\ error' = "Housekeeper gene not found"
            /\ pc' = "failed"
            /\ UNCHANGED processingResults
       ELSE /\ processingResults' = processAllGenes(geneDataMap, config.housekeeper, config)
            /\ pc' = "processed"
            /\ UNCHANGED error
    /\ UNCHANGED <<rawData, config, geneDataMap, outputResults, call, ret, app>>

\* generateAllOutputs(processingResults, controls, samples)
GenerateOutputs ==
    /\ pc = "processed"
    /\ outputResults' = generateAllOutputs(processingResults, config.controls, config.samples)
    /\ pc' = "done"
    /\ UNCHANGED <<rawData, config, geneDataMap, processingResults, error, call, ret, app>>

Next == BuildGeneData \/ ProcessAll \/ GenerateOutputs

Spec == Init /\ [][Next]_vars

(***************************************************************************)
(* The exported functions of the normalizer and of the column detection,   *)
(* called directly: the arguments are drawn from bounded sets, one action  *)
(* per function applies it.                                                *)
(***************************************************************************)
MaxResultRows == 2
MaxControls == 2
MaxTableRows == 2
MaxHeaders == 3

\* Summary rows as calculateProcessingRows builds them: one replicate of CT 25
\* against a housekeeper CT of 20, for reference delta-CTs 5 and 0, that is
\* fold changes 1 and 1/32.
ResultGroup(name) == [sampleName |-> name, sampleNumber |-> 1, ctValues |-> <<Rat(25, 1)>>]

HkGroup == [sampleName |-> "S1", sampleNumber |-> 1, ctValues |-> <<Rat(20, 1)>>]

ResultRowPool ==
    { SummaryRow(ResultGroup("S1"), HkGroup, ref, 1) : ref \in {Rat(5, 1), Zero} }
    \cup { SummaryRow(ResultGroup(name), HkGroup, Rat(5, 1), 1) : name \in {"", "S2"} }
    \cup { ReplicaRow(ResultGroup("S1"), HkGroup, 0) }

GeneResults ==
    { [geneName |-> TP53, rows |-> rows, firstDeltaCt |-> Zero] :
        rows \in SeqsUpTo(ResultRowPool, MaxResultRows) }

IsInjective(f) == \A i, j \in DOMAIN f : f[i] = f[j] => i = j

\* Lists of distinct names; a control need not be one of the samples.
NameLists(n) == {names \in SeqsUpTo({"S1", "S2", "S3"}, n) : IsInjective(names)}

ControlArgs == NameLists(MaxControls)

SampleArgs == NameLists(MaxSamples)

FoldChangeRowPool ==
    [controlName : {"", "S1"},
     controlFoldChange : {Zero, One, Rat(1, 32), NaN},
     observedName : {"S2"},
     observedFoldChange : {Rat(4, 1)}]

FoldChangeTables == SeqsUpTo(FoldChangeRowPool, MaxTableRows)

ControlAverages == {Zero, One, Rat(1, 32), Rat(33, 64)}

\* Datasets of one row whose headers vary; every column holds a number, only
\* the columns Val and "" hold one written with a decimal point.
HeaderPool ==
    { NameHeader, <<"C", "P">>, <<"c", "t">>, <<"C", "q">>, <<"x", "c", "p">>,
      <<"A", "c", "t">>, PosHeader, <<"V", "a", "l">>, <<>> }

CellOf(h) ==
    IF h = NameHeader THEN GAPDH
    ELSE IF h = PosHeader THEN <<"7">>
    ELSE IF h = <<"V", "a", "l">> THEN <<"2", "1", ".", "5">>
    ELSE IF h = <<>> THEN <<"2", "3", ".", "5">>
    ELSE <<"2", Lower[Len(h)]>>

HeaderLists == {hs \in SeqsUpTo(HeaderPool, MaxHeaders) : IsInjective(hs)}

HeaderDatasets ==
    { [title |-> <<"T">>, headers |-> hs,
       rows |-> << [h \in {hs[i] : i \in 1..Len(hs)} |-> CellOf(h)] >>] :
        hs \in HeaderLists }

\* Datasets of two samples of one replicate, housekeeper GAPDH and target TP53
\* (CT 25, 25): the housekeeper CT cells are 20 and 22.0, or 20 and the text
\* Infinity.
TwoSampleData(secondCt) ==
    [title |-> <<"R">>,
     headers |-> <<NameHeader, CpHeader>>,
     rows |-> << MkRow(GAPDH, Ct20), MkRow(GAPDH, secondCt),
                 MkRow(TP53, Ct25), MkRow(TP53, Ct25) >>]

TwoSampleConfig ==
    [replicaCount |-> 1, housekeeper |-> GAPDH,
     samples |-> <<"S1", "S2">>, controls |-> <<"S2">>]

\* The result map processAllGenes returns for such a dataset.
ResultMapOf(data) ==
    CHOOSE results \in
        { processAllGenes(geneData, TwoSampleConfig.housekeeper, TwoSampleConfig) :
            geneData \in { buildGeneDataWithGroups(data, TwoSampleConfig.replicaCount,
                                                   TwoSampleConfig.samples) } } : TRUE

Calls ==
    { [NoCall EXCEPT !.fn = f, !.result = r, !.controls = c, !.allSamples = s] :
        f \in {"buildFoldChangeTable", "generateGeneOutput"},
        r \in GeneResults, c \in ControlArgs, s \in SampleArgs }
    \cup { [NoCall EXCEPT !.fn = "calculateControlAverage", !.foldChangeRows = t] :
             t \in FoldChangeTables }
    \cup { [NoCall EXCEPT !.fn = "buildNormalizedTable", !.foldChangeRows = t,
                          !.controlAverage = a] :
             t \in FoldChangeTables, a \in ControlAverages }
    \cup { [NoCall EXCEPT !.fn = f, !.data = d] :
             f \in {"detectCtColumn", "extractGeneData"}, d \in HeaderDatasets }
    \cup { [NoCall EXCEPT !.fn = "generateAllOutputs", !.data = TwoSampleData(ct),
                          !.controls = c, !.allSamples = TwoSampleConfig.samples] :
             ct \in {Ct22, CtInfinity}, c \in { <<"S2">>, <<"S1", "S2">> } }

CallInit ==
    /\ call \in Calls
    /\ app = FreshApp
    /\ ret = Null
    /\ pc = "called"
    /\ error = ""
    /\ rawData = NoData
    /\ config = ScenarioAConfig
    /\ geneDataMap = <<>>
    /\ processingResults = <<>>
    /\ outputResults = <<>>

Pipeline == <<rawData, config, geneDataMap, processingResults, outputResults>>

CallBuildFoldChangeTable ==
    /\ pc = "called"
    /\ call.fn = "buildFoldChangeTable"
    /\ ret' = buildFoldChangeTable(call.result, call.controls, call.allSamples)
    /\ pc' = "returned"
    /\ UNCHANGED <<call, error, app, Pipeline>>

CallCalculateControlAverage ==
    /\ pc = "called"
    /\ call.fn = "calculateControlAverage"
    /\ ret' = calculateControlAverage(call.foldChangeRows)
    /\ pc' = "returned"
    /\ UNCHANGED <<call, error, app, Pipeline>>

CallBuildNormalizedTable ==
    /\ pc = "called"
    /\ call.fn = "buildNormalizedTable"
    /\ ret' = buildNormalizedTable(call.foldChangeRows, call.controlAverage)
    /\ pc' = "returned"
    /\ UNCHANGED <<call, error, app, Pipeline>>

CallGenerateGeneOutput ==
    /\ pc = "called"
    /\ call.fn = "generateGeneOutput"
    /\ ret' = generateGeneOutput(call.result, call.controls, call.allSamples)
    /\ pc' = "returned"
    /\ UNCHANGED <<call, error, app, Pipeline>>

CallDetectCtColumn ==
    /\ pc = "called"
    /\ call.fn = "detectCtColumn"
    /\ ret' = detectCtColumn(call.data)
    /\ pc' = "returned"
    /\ UNCHANGED <<call, error, app, Pipeline>>

CallExtractGeneData ==
    /\ pc = "called"
    /\ call.fn = "extractGeneData"
    /\ IF extractGeneDataThrows(call.data)
       THEN /\ error' = "Could not detect CT value column"
            /\ pc' = "failed"
            /\ UNCHANGED ret
       ELSE /\ ret' = extractGeneData(call.data)
            /\ pc' = "returned"
            /\ UNCHANGED error
    /\ UNCHANGED <<call, app, Pipeline>>

CallGenerateAllOutputs ==
    /\ pc = "called"
    /\ call.fn = "generateAllOutputs"
    /\ \E results \in {ResultMapOf(call.data)} :
           ret' = generateAllOutputs(results, call.controls, call.allSamples)
    /\ pc' = "returned"
    /\ UNCHANGED <<call, error, app, Pipeline>>

CallNext ==
    \/ CallBuildFoldChangeTable
    \/ CallCalculateControlAverage
    \/ CallBuildNormalizedTable
    \/ CallGenerateGeneOutput
    \/ CallDetectCtColumn
    \/ CallExtractGeneData
    \/ CallGenerateAllOutputs

CallSpec == CallInit /\ [][CallNext]_vars

(***************************************************************************)
(* Properties of the gene grouping engine.                                 *)
(***************************************************************************)
Grouped == pc \in {"grouped", "processed", "done"} \/ (pc = "failed" /\ geneDataMap # <<>>)

Processed == pc \in {"processed", "done"}

GeneRecords == {geneDataMap[i].value : i \in 1..Len(geneDataMap)}

Results == {processingResults[i].value : i \in 1..Len(processingResults)}

SumLen(groups) ==
    LET RECURSIVE S(_)
        S(i) == IF i = 0 THEN 0 ELSE S(i - 1) + Len(groups[i].ctValues)
    IN  S(Len(groups))

\* C1: the group at position i (0-based) of a gene has sampleNumber i+1, the
\* i-th sample name, and the CT values of measurements
\* [i*replicaCount, i*replicaCount + replicaCount) in that order; the groups
\* together hold no more values than there are measurements.
C1_GroupsAreConsecutiveSlices ==
    Grouped =>
        \A g \in GeneRecords :
            /\ \A i \in 1..Len(g.replicaGroups) :
                  LET grp == g.replicaGroups[i]
                      first == (i - 1) * config.replicaCount
                  IN  /\ grp.sampleNumber = i
                      /\ i <= Len(config.samples)
                      /\ grp.sampleName = config.samples[i]
                      /\ first + Len(grp.ctValues) <= Len(g.measurements)
                      /\ grp.ctValues =
                            [j \in 1..Len(grp.ctValues) |-> g.measurements[first + j].value]
            /\ SumLen(g.replicaGroups) <= Len(g.measurements)

\* A gene with two groups whose values differ, so that a slice taken at a wrong
\* offset would show.
C1_Witness ==
    /\ Grouped
    /\ \E g \in GeneRecords :
          /\ Len(g.replicaGroups) >= 2
          /\ g.replicaGroups[1].ctValues # g.replicaGroups[2].ctValues
          /\ config.replicaCount >= 2

\* C2: the number of groups is min(#sample names, floor(#measurements /
\* replicaCount)) and every group has exactly replicaCount values: a partial
\* trailing group is dropped, never truncated.
C2_PartialGroupsDropped ==
    Grouped =>
        \A g \in GeneRecords :
            /\ Len(g.replicaGroups) =
                  Min(Len(config.samples), Len(g.measurements) \div config.replicaCount)
            /\ \A i \in 1..Len(g.replicaGroups) :
                  Len(g.replicaGroups[i].ctValues) = config.replicaCount

\* Measurements are left over for a sample that has a name, but too few of them.
C2_Witness ==
    /\ Grouped
    /\ \E g \in GeneRecords :
          /\ Len(g.measurements) % config.replicaCount # 0
          /\ Len(g.replicaGroups) = 1
          /\ Len(config.samples) >= 2
          /\ Len(g.measurements) > config.replicaCount

\* "Sample", optional white space, digits (case-insensitive), after trimming.
IsMarkerName(name) ==
    LET t == Trim(name)
    IN  \E w \in 0..Len(t) : \E n \in 1..Len(t) :
           /\ Len(t) = 6 + w + n
           /\ ToLowerCase(SubSeq(t, 1, 6)) = SampleWord
           /\ \A i \in 7..(6 + w) : t[i] \in WhiteSpace
           /\ \A i \in (7 + w)..Len(t) : IsDigit(t[i])

RowName(i) == Field(rawData.rows[i], NameHeader)

\* C3: a row whose name matches the marker pattern contributes no measurement,
\* and no such name is a key of the gene map, of the processing results or of
\* the output results.
C3_MarkerRowsExcluded ==
    /\ \A i \in 1..Len(geneDataMap) :
          /\ ~IsMarkerName(geneDataMap[i].key)
          /\ \A j \in 1..Len(geneDataMap[i].value.measurements) :
                ~IsMarkerName(RowName(geneDataMap[i].value.measurements[j].rowIndex + 1))
    /\ \A i \in 1..Len(processingResults) : ~IsMarkerName(processingResults[i].key)
    /\ \A i \in 1..Len(outputResults) : ~IsMarkerName(outputResults[i].key)

\* The pipeline has run to its end on a dataset with a marker row whose CT
\* value parses, and produced output.
C3_Witness ==
    /\ pc = "done"
    /\ outputResults # <<>>
    /\ \E i \in 1..Len(rawData.rows) :
          /\ IsMarkerName(RowName(i))
          /\ ~IsNaN(ParseFloat(Field(rawData.rows[i], detectCtColumn(rawData))))

\* C4 (as claimed): every recorded measurement has a finite value.
C4_MeasurementsFinite ==
    \A g \in GeneRecords :
        \A j \in 1..Len(g.measurements) : g.measurements[j].value.k = "fin"

\* C5: the measurements of a gene are in row order: rowIndex strictly
\* increasing, the value is the CT value of the row at rowIndex, whose Name is
\* the gene's name.
C5_MeasurementsInRowOrder ==
    Grouped =>
        LET ctColumn == detectCtColumn(rawData)
        IN  \A g \in GeneRecords :
                \A j \in 1..Len(g.measurements) :
                    LET m == g.measurements[j]
                    IN  /\ m.rowIndex \in 0..(Len(rawData.rows) - 1)
                        /\ j > 1 => g.measurements[j - 1].rowIndex < m.rowIndex
                        /\ m.value = ParseFloat(Field(rawData.rows[m.rowIndex + 1], ctColumn))
                        /\ RowName(m.rowIndex + 1) = g.name

\* A gene whose measurements come from rows that are not adjacent and differ.
C5_Witness ==
    /\ Grouped
    /\ \E g \in GeneRecords :
          /\ Len(g.measurements) >= 2
          /\ g.measurements[2].rowIndex > g.measurements[1].rowIndex + 1
          /\ g.measurements[1].value # g.measurements[2].value
          /\ g.measurements[1].rowIndex > 0

(***************************************************************************)
(* Properties of the delta calculator.                                     *)
(***************************************************************************)
SummaryRows(result) == SelectSeq(result.rows, LAMBDA r : ~r.isReplicaRow)

HkGroups == MapGet(geneDataMap, config.housekeeper).replicaGroups

TargetGroups(geneName) == MapGet(geneDataMap, geneName).replicaGroups

\* C6: target and reference groups are paired by position: exactly one summary
\* row for each index that has a group on both sides, carrying the two groups of
\* that index, and no row of any kind for another index.
C6_PairedByPosition ==
    Processed =>
        \A k \in 1..Len(processingResults) :
            LET tg == TargetGroups(processingResults[k].key)
                paired == Min(Len(tg), Len(HkGroups))
                summary == SummaryRows(processingResults[k].value)
                rows == processingResults[k].value.rows
            IN  /\ Len(summary) = paired
                /\ \A i \in 1..Len(summary) :
                      /\ summary[i].sampleNumber = tg[i].sampleNumber
                      /\ summary[i].sampleName = tg[i].sampleName
                      /\ summary[i].ctValues = tg[i].ctValues
                      /\ summary[i].hkCtValues = HkGroups[i].ctValues
                /\ \A j \in 1..Len(rows) : rows[j].sampleNumber \in 1..paired

\* A target gene has more groups than the reference gene, which has some: an
\* index with a group on the target side only.
C6_Witness ==
    /\ Processed
    /\ \E k \in 1..Len(processingResults) :
          /\ Len(TargetGroups(processingResults[k].key)) > Len(HkGroups)
          /\ Len(HkGroups) >= 1

\* C7 (as claimed): firstDeltaCt is the delta-CT of the first summary row and
\* the value subtracted in every summary row, so that the first summary row has
\* delta-delta-CT 0; it is 0 when the gene has no paired sample.
C7_BaselineIsFirstDeltaCt ==
    Processed =>
        \A res \in Results :
            LET summary == SummaryRows(res)
            IN  IF summary = <<>> THEN res.firstDeltaCt = Zero
                ELSE /\ res.firstDeltaCt = summary[1].deltaCt
                     /\ \A i \in 1..Len(summary) :
                           summary[i].deltaDeltaCt = Sub(summary[i].deltaCt, res.firstDeltaCt)
                     /\ summary[1].deltaDeltaCt = Zero

ScenarioA == rawData = ScenarioAData /\ config = ScenarioAConfig

\* C8: in every summary row deltaCt = mean(target CT) - mean(reference CT) and
\* foldChange = 2^(-deltaDeltaCt); scenario A yields sample 1: 5, 0, 1 and
\* sample 2: 3, -2, 4.
C8_DeltaCtAndFoldChange ==
    Processed =>
        /\ \A res \in Results :
              \A i \in 1..Len(SummaryRows(res)) :
                 LET row == SummaryRows(res)[i]
                 IN  /\ row.deltaCt = Sub(mean(row.ctValues), mean(row.hkCtValues))
                     /\ row.foldChange = Pow2(Neg(row.deltaDeltaCt))
        /\ ScenarioA =>
              /\ MapKeys(processingResults) = <<TP53>>
              /\ LET summary == SummaryRows(MapGet(processingResults, TP53))
                 IN  /\ Len(summary) = 2
                     /\ summary[1].deltaCt = Rat(5, 1)
                     /\ summary[1].deltaDeltaCt = Zero
                     /\ summary[1].foldChange = One
                     /\ summary[2].deltaCt = Rat(3, 1)
                     /\ summary[2].deltaDeltaCt = Rat(-2, 1)
                     /\ summary[2].foldChange = Rat(4, 1)
              /\ MapGet(processingResults, TP53).firstDeltaCt = Rat(5, 1)

\* Scenario A has been processed.
C8_Witness ==
    /\ Processed
    /\ ScenarioA
    /\ processingResults # <<>>

\* A replica row carries one raw value and zero in every derived field.
IsZeroedReplicaRow(row) ==
    /\ row.isReplicaRow
    /\ Len(row.ctValues) = 1
    /\ row.ctStd = Zero /\ row.ctMean = Zero
    /\ row.hkCtStd = Zero /\ row.hkCtMean = Zero
    /\ row.deltaCt = Zero /\ row.deltaDeltaCt = Zero
    /\ row.combinedStd = Zero /\ row.foldChange = Zero /\ row.sem = Zero

\* C9: rows are in sample order; each summary row is immediately followed by
\* its replica rows, one per target CT value (at most replicaCount), with
\* replicaIndex 0, 1, ..., the sample of the summary row, the r-th target CT
\* value alone in ctValues and 0 in every derived field.
C9_SummaryThenReplicaRows ==
    Processed =>
        \A res \in Results :
            LET rows == res.rows
            IN  /\ \A j \in 1..(Len(rows) - 1) : rows[j].sampleNumber <= rows[j + 1].sampleNumber
                /\ rows # <<>> => ~rows[1].isReplicaRow
                /\ \A j \in 1..Len(rows) :
                      rows[j].isReplicaRow => IsZeroedReplicaRow(rows[j])
                /\ \A j \in 1..Len(rows) :
                      ~rows[j].isReplicaRow =>
                         LET n == Len(rows[j].ctValues)
                         IN  /\ n <= config.replicaCount
                             /\ j + n <= Len(rows)
                             /\ \A r \in 1..n :
                                   /\ rows[j + r].isReplicaRow
                                   /\ rows[j + r].replicaIndex = r - 1
                                   /\ rows[j + r].sampleNumber = rows[j].sampleNumber
                                   /\ rows[j + r].sampleName = rows[j].sampleName
                                   /\ rows[j + r].ctValues = <<rows[j].ctValues[r]>>
                             /\ j + n < Len(rows) => ~rows[j + n + 1].isReplicaRow

\* A gene with two samples of two replicas each whose summary row has a
\* non-zero mean.
C9_Witness ==
    /\ Processed
    /\ \E res \in Results :
          /\ Len(SummaryRows(res)) >= 2
          /\ Len(res.rows) >= 6
          /\ res.rows[1].ctMean # Zero

HousekeeperNotFound == pc = "failed" /\ error = "Housekeeper gene not found"

\* The rows of the dataset that extractGeneData records a measurement for.
ContributingRows ==
    LET ctColumn == detectCtColumn(rawData)
    IN  {i \in 1..Len(rawData.rows) :
            /\ ~IsMarkerName(RowName(i))
            /\ RowName(i) # <<>>
            /\ ~IsNaN(ParseFloat(Field(rawData.rows[i], ctColumn)))}

\* The first of the given rows that carries the name.
FirstRowOf(name, rows) ==
    CHOOSE i \in rows :
        /\ RowName(i) = name
        /\ \A j \in rows : RowName(j) = name => i <= j

\* seq lists names of the given rows once each, in order of first appearance.
InFirstAppearanceOrder(seq, rows) ==
    /\ \A p \in 1..Len(seq) : \E i \in rows : RowName(i) = seq[p]
    /\ \A p, q \in 1..Len(seq) :
          p < q => FirstRowOf(seq[p], rows) < FirstRowOf(seq[q], rows)

PairedCount(geneName) == Min(Len(TargetGroups(geneName)), Len(HkGroups))

\* C11: a target gene with no replica group at a position shared with the
\* housekeeper has no entry in the processing-result map, nor in the output map.
C11_UnpairedGeneDropped ==
    Processed =>
        \A i \in 1..Len(geneDataMap) :
            (geneDataMap[i].key # config.housekeeper /\ PairedCount(geneDataMap[i].key) = 0)
            => /\ ~MapHas(processingResults, geneDataMap[i].key)
               /\ pc = "done" => ~MapHas(outputResults, geneDataMap[i].key)

Returned(fn) == pc = "returned" /\ call.fn = fn

\* The samples of a call that are not controls, in the order of allSamples.
ObservedOf(c) ==
    SelectSeq(c.allSamples, LAMBDA s : \A i \in 1..Len(c.controls) : c.controls[i] # s)

\* C12: buildFoldChangeTable pairs by position: row i names controls[i] and the
\* i-th observed sample (allSamples without the controls, cut to the first
\* min(len(observed), len(controls)) entries), the empty string where there is
\* none; no observed sample beyond the first len(controls) ones appears.
C12_PairedByPosition ==
    Returned("buildFoldChangeTable") =>
        LET observed == ObservedOf(call)
            kept == Min(Len(observed), Len(call.controls))
        IN  /\ Len(ret) = Max(Len(call.controls), kept)
            /\ \A i \in 1..Len(ret) :
                  /\ ret[i].controlName =
                        IF i <= Len(call.controls) THEN call.controls[i] ELSE ""
                  /\ ret[i].observedName = IF i <= kept THEN observed[i] ELSE ""
            /\ \A i \in 1..Len(ret), j \in 1..Len(observed) :
                  (j > Len(call.controls) /\ \A k \in 1..(j - 1) : observed[k] # observed[j])
                  => ret[i].observedName # observed[j]

\* More observed samples than controls: the second observed sample is left out.
C12_Witness ==
    /\ Returned("buildFoldChangeTable")
    /\ call.controls = <<"S1">>
    /\ call.allSamples = <<"S2", "S3">>
    /\ Len(ret) = 1
    /\ ret[1].observedName = "S2"

\* The fold changes of the summary rows of a gene result that carry name.
SummaryFoldChanges(result, name) ==
    {result.rows[i].foldChange :
        i \in {j \in 1..Len(result.rows) :
                  ~result.rows[j].isReplicaRow /\ result.rows[j].sampleName = name}}

\* The fold change the table pairs with name.
IsPairedValue(result, name, value) ==
    IF name = "" \/ SummaryFoldChanges(result, name) = {}
    THEN value = Zero
    ELSE value \in SummaryFoldChanges(result, name)

\* C13: each fold-change value of the table is that of a summary row of the
\* gene whose sampleName equals the paired name; it is 0 when there is no such
\* row, and 0 for an empty control or observed name, whatever the result's rows.
C13_FoldChangeByExactName ==
    Returned("buildFoldChangeTable") =>
        \A i \in 1..Len(ret) :
            /\ IsPairedValue(call.result, ret[i].controlName, ret[i].controlFoldChange)
            /\ IsPairedValue(call.result, ret[i].observedName, ret[i].observedFoldChange)

\* The indices of the table rows that count towards the control average.
QualifyingRows(table) ==
    {i \in 1..Len(table) :
        /\ table[i].controlName # ""
        /\ table[i].controlFoldChange.k = "fin"
        /\ table[i].controlFoldChange.n > 0}

\* The sum of the n/d of the rows in S, as a pair <<numerator, denominator>>.
RECURSIVE SumOver(_, _)
SumOver(table, S) ==
    IF S = {} THEN <<0, 1>>
    ELSE LET i == CHOOSE x \in S : TRUE
             rest == SumOver(table, S \ {i})
             v == table[i].controlFoldChange
         IN  <<rest[1] * v.d + v.n * rest[2], rest[2] * v.d>>

\* C14: calculateControlAverage returns the arithmetic mean of controlFoldChange
\* over the rows with a non-empty controlName and a controlFoldChange > 0, and
\* exactly 1 when no row qualifies (the empty table included).
C14_ControlAverage ==
    Returned("calculateControlAverage") =>
        LET S == QualifyingRows(call.foldChangeRows)
            total == SumOver(call.foldChangeRows, S)
        IN  IF S = {} THEN ret = One
            ELSE /\ ret.k = "fin"
                 /\ ret.n * total[2] * Cardinality(S) = total[1] * ret.d

\* A control without a summary row (fold change 0) next to one with fold
\* change 1/32: the average is 1/32.
C14_Witness ==
    /\ Returned("calculateControlAverage")
    /\ Len(call.foldChangeRows) = 2
    /\ call.foldChangeRows[1].controlName = "S1"
    /\ call.foldChangeRows[1].controlFoldChange = Zero
    /\ call.foldChangeRows[2].controlName = "S1"
    /\ call.foldChangeRows[2].controlFoldChange = Rat(1, 32)
    /\ ret = Rat(1, 32)

\* q is the quotient of the finite number x by the finite, non-zero number d.
IsQuotient(q, x, d) ==
    /\ q.k = "fin"
    /\ q.n * d.n * x.d = x.n * d.d * q.d

\* C15: buildNormalizedTable returns one row per input row, in the same order
\* and with the same names, whose values are the fold changes divided by d,
\* where d is the control average, or 1 when the control average is 0; a
\* finite fold change never yields an infinite or undefined value.
C15_NormalizedByAverage ==
    Returned("buildNormalizedTable") =>
        LET table == call.foldChangeRows
            d == IF call.controlAverage = Zero THEN One ELSE call.controlAverage
        IN  /\ Len(ret) = Len(table)
            /\ \A i \in 1..Len(table) :
                  /\ ret[i].controlName = table[i].controlName
                  /\ ret[i].observedName = table[i].observedName
                  /\ IF IsNaN(table[i].controlFoldChange)
                     THEN IsNaN(ret[i].normalizedControl)
                     ELSE IsQuotient(ret[i].normalizedControl, table[i].controlFoldChange, d)
                  /\ IsQuotient(ret[i].normalizedObserved, table[i].observedFoldChange, d)

\* A control average of exactly 0: the values are returned unchanged.
C15_Witness ==
    /\ Returned("buildNormalizedTable")
    /\ call.controlAverage = Zero
    /\ Len(call.foldChangeRows) = 1
    /\ call.foldChangeRows[1].controlFoldChange = Rat(1, 32)
    /\ ret[1].normalizedControl = Rat(1, 32)
    /\ ret[1].normalizedObserved = Rat(4, 1)

\* The mean of the qualifying control fold changes of a table, 1 if there are none.
AverageOf(table) ==
    LET S == QualifyingRows(table)
        total == SumOver(table, S)
    IN  IF S = {} THEN One ELSE Rat(total[1], total[2] * Cardinality(S))

\* r is the finite number x rounded to 4 decimal places (halves rounded up).
IsRoundedTo4(r, x) ==
    /\ r.k = "fin"
    /\ 10000 % r.d = 0
    /\ LET m == r.n * (10000 \div r.d)
       IN  /\ 2 * m * x.d <= 20000 * x.n + x.d
           /\ 2 * m * x.d > 20000 * x.n - x.d

\* C16: in the result of generateGeneOutput, controlAverage is the control
\* average rounded to 4 decimal places, every normalized value is the fold
\* change divided by the unrounded average, and the fold-change rows carry the
\* unrounded fold changes of the summary rows.
C16_RoundedAverageUnroundedTable ==
    Returned("generateGeneOutput") =>
        LET table == ret.foldChangeRows
            average == AverageOf(table)
        IN  /\ IsRoundedTo4(ret.controlAverage, average)
            /\ Len(ret.normalizedRows) = Len(table)
            /\ \A i \in 1..Len(table) :
                  /\ IsQuotient(ret.normalizedRows[i].normalizedControl,
                                table[i].controlFoldChange, average)
                  /\ IsQuotient(ret.normalizedRows[i].normalizedObserved,
                                table[i].observedFoldChange, average)
                  /\ (table[i].controlName # ""
                      /\ SummaryFoldChanges(call.result, table[i].controlName) # {})
                     => table[i].controlFoldChange
                           \in SummaryFoldChanges(call.result, table[i].controlName)

\* A control of fold change 1/32: the average field is 0.0313, the control is
\* normalized to 1 and the observed fold change 1 to 32.
C16_Witness ==
    /\ Returned("generateGeneOutput")
    /\ call.controls = <<"S1">>
    /\ call.allSamples = <<"S1", "S2">>
    /\ Len(ret.foldChangeRows) = 1
    /\ ret.foldChangeRows[1].controlFoldChange = Rat(1, 32)
    /\ ret.foldChangeRows[1].observedFoldChange = One
    /\ ret.controlAverage = Rat(313, 10000)
    /\ ret.normalizedRows[1].normalizedControl = One
    /\ ret.normalizedRows[1].normalizedObserved = Rat(32, 1)

Outputs == {outputResults[i].value : i \in 1..Len(outputResults)}

\* The gene has a summary row for the sample name.
HasSummaryRow(geneName, name) ==
    \E i \in 1..Len(MapGet(processingResults, geneName).rows) :
        LET row == MapGet(processingResults, geneName).rows[i]
        IN  ~row.isReplicaRow /\ row.sampleName = name

\* C17: when the only control is the first sample and the gene has a summary
\* row for it, the output has controlAverage = 1 and every normalized value
\* equals the fold-change value it comes from; in scenario B (samples [S1,S2],
\* controls [S1], TP53 fold changes 1 and 4) the single row is S1 -> 1, S2 -> 4.
C17_BaselineControlLeavesValues ==
    pc = "done" =>
        /\ \A out \in Outputs :
              (/\ Len(config.samples) > 0
               /\ config.controls = <<config.samples[1]>>
               /\ HasSummaryRow(out.geneName, config.samples[1]))
              => /\ out.controlAverage = One
                 /\ Len(out.normalizedRows) = Len(out.foldChangeRows)
                 /\ \A i \in 1..Len(out.foldChangeRows) :
                       /\ out.normalizedRows[i].normalizedControl
                             = out.foldChangeRows[i].controlFoldChange
                       /\ out.normalizedRows[i].normalizedObserved
                             = out.foldChangeRows[i].observedFoldChange
        /\ ScenarioA =>
              /\ MapGet(outputResults, TP53).controlAverage = One
              /\ MapGet(outputResults, TP53).normalizedRows =
                    << [controlName |-> "S1", normalizedControl |-> One,
                        observedName |-> "S2", normalizedObserved |-> Rat(4, 1)] >>

\* Scenario B has run: the fold-change table of TP53 is S1 -> 1, S2 -> 4.
C17_Witness ==
    /\ pc = "done"
    /\ ScenarioA
    /\ MapGet(outputResults, TP53).foldChangeRows =
          << [controlName |-> "S1", controlFoldChange |-> One,
              observedName |-> "S2", observedFoldChange |-> Rat(4, 1)] >>

(***************************************************************************)
(* Properties of the column detection and of the statistics.               *)
(***************************************************************************)
\* The first of the headers at the given indices.
FirstOf(data, indices) ==
    data.headers[CHOOSE i \in indices : \A j \in indices : i <= j]

ExactlyNamed(data, name) ==
    {i \in 1..Len(data.headers) : ToLowerCase(data.headers[i]) = name}

NamedLike(data, name) ==
    {i \in 1..Len(data.headers) : Includes(ToLowerCase(data.headers[i]), name)}

\* A text holding a positive number and a decimal point.
IsPositiveDecimal(text) ==
    /\ text # Undefined
    /\ Includes(text, <<".">>)
    /\ ParseFloat(text).k \in {"fin", "inf"}
    /\ ParseFloat(text).n > 0

WithDecimals(data) ==
    {i \in 1..Len(data.headers) :
        /\ data.headers[i] # NameHeader
        /\ \E r \in 1..Len(data.rows) :
              IsPositiveDecimal(Field(data.rows[r], data.headers[i]))}

\* The candidate sets in the order of their priority.
CtCandidates(data) ==
    << ExactlyNamed(data, <<"c", "p">>), ExactlyNamed(data, <<"c", "t">>),
       ExactlyNamed(data, <<"c", "q">>),
       NamedLike(data, <<"c", "p">>), NamedLike(data, <<"c", "t">>),
       NamedLike(data, <<"c", "q">>),
       WithDecimals(data) >>

SomeHeaderQualifies(data) == \E p \in 1..7 : CtCandidates(data)[p] # {}

\* C18: detectCtColumn returns the first header of the first non-empty
\* candidate set in the order: equal to cp, to ct, to cq (ignoring case),
\* containing cp, ct, cq, holding a positive number with a decimal point in
\* some row (the Name column excepted); extractGeneData fails with the
\* detection error, returning no gene map, exactly when no header qualifies.
C18_CtColumnPriority ==
    /\ Returned("detectCtColumn") =>
          IF SomeHeaderQualifies(call.data)
          THEN LET p == CHOOSE q \in 1..7 :
                          /\ CtCandidates(call.data)[q] # {}
                          /\ \A o \in 1..(q - 1) : CtCandidates(call.data)[o] = {}
               IN  ret = FirstOf(call.data, CtCandidates(call.data)[p])
          ELSE ret = Null
    /\ (call.fn = "extractGeneData" /\ pc # "called") =>
          /\ pc = "failed" <=> ~SomeHeaderQualifies(call.data)
          /\ pc = "failed" =>
                ret = Null /\ error = "Could not detect CT value column"

DetectionFailed == pc = "failed" /\ error = "Could not detect CT value column"

\* C19: a dataset accepted by validateTsvData has a "Name" column and a CT
\* column that detectCtColumn detects, so extractGeneData on it never raises
\* the detection error.
C19_AcceptedDataDetectable ==
    (pc # "loaded" /\ validateTsvData(rawData).isValid) =>
        /\ Contains(rawData.headers, NameHeader)
        /\ Truthy(detectCtColumn(rawData))
        /\ ~DetectionFailed

\* x is a number that is >= 0.
NonNegative(x) ==
    \/ x.k = "fin" /\ x.n >= 0
    \/ x.k = "root"
    \/ x.k = "inf" /\ x.n = 1

\* C20: the standard deviations of a summary row are 0 for fewer than 2 values
\* and non-negative otherwise; with replicaCount = 1 every summary row has
\* ctStd = hkCtStd = combinedStd = sem = 0.
C20_StandardDeviationNonNegative ==
    Processed =>
        \A result \in Results :
            \A i \in 1..Len(result.rows) :
                LET row == result.rows[i]
                IN  ~row.isReplicaRow =>
                        /\ NonNegative(row.ctStd)
                        /\ NonNegative(row.hkCtStd)
                        /\ Len(row.ctValues) < 2 => row.ctStd = Zero
                        /\ Len(row.hkCtValues) < 2 => row.hkCtStd = Zero
                        /\ config.replicaCount = 1 =>
                              /\ row.ctStd = Zero
                              /\ row.hkCtStd = Zero
                              /\ row.combinedStd = Zero
                              /\ row.sem = Zero

(***************************************************************************)
(* The application: the StateManager (one state object, subscribers are    *)
(* notified synchronously) and the App controller.  A state s is a record  *)
(* of the fields of AppState, the input elements of the page, the debounce *)
(* timer and pc, which tells how far the handler that ran last got:        *)
(*   "idle"         : the pipeline was not run,                            *)
(*   "skipped"      : runProcessing returned early,                        *)
(*   "detectFailed" : extractGeneData threw, the error was caught,         *)
(*   "lookupFailed" : processAllGenes threw, the error was caught,         *)
(*   "processed"    : processAllGenes returned, runOutput returned early,  *)
(*   "output"       : generateAllOutputs was called.                       *)
(* Of the page only the elements that events read are part of the state:   *)
(* the three inputs and the tabs; rendered tables and messages are not.    *)
(* A setter of the StateManager is the operator that maps s to the state   *)
(* after the setter and after everything its notification runs.  A null    *)
(* rawData is NoData.  A text area is the sequence of its lines.           *)
(***************************************************************************)
MaxGeneRows == 2

\* parseInt(text, 10): NaN when no digit follows the optional sign.
ParseInt(text) ==
    LET t == TrimStart(text)
        signed == t # <<>> /\ t[1] \in {"+", "-"}
        body == IF signed THEN Tail(t) ELSE t
        n == DigitPrefixLen(body)
        magnitude == DigitsValue(SubSeq(body, 1, n))
    IN  IF n = 0 THEN NaN
        ELSE IF signed /\ t[1] = "-" THEN Rat(-magnitude, 1)
        ELSE Rat(magnitude, 1)

\* parseInt(input.value, 10) || 3
getReplicaCount(text) ==
    LET parsed == ParseInt(text)
    IN  IF IsNaN(parsed) \/ parsed = Zero THEN 3 ELSE parsed.n

\* A line of a text area without its surrounding white space; the names of
\* the line pool carry none, so only blank lines change.
BlankLines == {"", " "}

TrimLine(line) == IF line \in BlankLines THEN "" ELSE line

\* getSampleList and getControlList: the trimmed, non-empty lines.
getSampleList(lines) ==
    SelectSeq([i \in 1..Len(lines) |-> TrimLine(lines[i])], LAMBDA line : line # "")

getControlList(lines) ==
    SelectSeq([i \in 1..Len(lines) |-> TrimLine(lines[i])], LAMBDA line : line # "")

RECURSIVE GeneNamesLoop(_, _, _)
GeneNamesLoop(rows, i, names) ==
    IF i > Len(rows) THEN names
    ELSE LET name == Field(rows[i], NameHeader)
             keep == Truthy(name) /\ Trim(name) # <<>> /\ ~shouldIgnoreRow(rows[i])
         IN  GeneNamesLoop(rows, i + 1,
                 IF keep /\ ~Contains(names, Trim(name))
                 THEN Append(names, Trim(name))
                 ELSE names)

\* The distinct names of the rows that are not marker rows, in row order.
extractGeneNames(data) == GeneNamesLoop(data.rows, 1, <<>>)

filterIgnoredRows(data) ==
    [data EXCEPT !.rows = SelectSeq(@, LAMBDA row : ~shouldIgnoreRow(row))]

\* availableGenes[0]
FirstGene(genes) == IF Len(genes) > 0 THEN genes[1] ELSE Undefined

\* rows.filter(r => r["Name"] === geneName).length
GeneRowCount(rows, geneName) ==
    Cardinality({i \in 1..Len(rows) : Field(rows[i], NameHeader) = geneName})

\* Math.floor(a / b) for b # 0
FloorDiv(a, b) == IF b > 0 THEN a \div b ELSE (-a) \div (-b)

\* "Sample 1", ..., "Sample n" for n = floor(totalRows / replicaCount).
generateSampleNames(totalRows, replicaCount) ==
    [i \in 1..FloorDiv(totalRows, replicaCount) |-> "Sample " \o ToString(i)]

\* count is the value of getReplicaCount, a whole number.
validateReplicaCount(count) ==
    LET errors ==
            IF count < 1
            THEN <<[field |-> "replicaCount", message |-> "Replica count must be at least 1"]>>
            ELSE IF count > 10
            THEN <<[field |-> "replicaCount", message |-> "Replica count cannot exceed 10"]>>
            ELSE <<>>
    IN  [isValid |-> Len(errors) = 0, errors |-> errors]

validateHousekeeper(housekeeper, availableGenes) ==
    LET errors ==
            IF ~Truthy(housekeeper) \/ Trim(housekeeper) = <<>>
            THEN <<[field |-> "housekeeper", message |-> "Please select a housekeeper gene"]>>
            ELSE IF ~Contains(availableGenes, housekeeper)
            THEN <<[field |-> "housekeeper", message |-> "not a valid gene in the data"]>>
            ELSE <<>>
    IN  [isValid |-> Len(errors) = 0, errors |-> errors]

validateSampleList(samples, totalDataRows, replicaCount) ==
    LET expectedSamples == FloorDiv(totalDataRows, replicaCount)
        errors ==
            (IF Len(samples) = 0
             THEN <<[field |-> "sampleList", message |-> "Please enter at least one sample name"]>>
             ELSE <<>>)
            \o (IF ~IsInjective(samples)
                THEN <<[field |-> "sampleList", message |-> "Duplicate sample names found"]>>
                ELSE <<>>)
            \o (IF Len(samples) > expectedSamples
                THEN <<[field |-> "sampleList", message |-> "Too many samples"]>>
                ELSE <<>>)
    IN  [isValid |-> Len(errors) = 0, errors |-> errors]

validateControlList(controls, samples) ==
    LET invalidControls == SelectSeq(controls, LAMBDA c : ~Contains(samples, c))
        errors ==
            (IF Len(controls) = 0
             THEN <<[field |-> "controlList", message |-> "Please enter at least one control sample"]>>
             ELSE <<>>)
            \o (IF Len(invalidControls) > 0
                THEN <<[field |-> "controlList", message |-> "Controls must be in the sample list"]>>
                ELSE <<>>)
            \o (IF ~IsInjective(controls)
                THEN <<[field |-> "controlList", message |-> "Duplicate control names found"]>>
                ELSE <<>>)
    IN  [isValid |-> Len(errors) = 0, errors |-> errors]

setValidationErrors(s, errors) == [s EXCEPT !.validationErrors = errors]

clearValidationError(s, field) ==
    [s EXCEPT !.validationErrors = SelectSeq(@, LAMBDA e : e.field # field)]

\* setOutputResults; the subscriber only renders.
setOutputResults(s, results) == [s EXCEPT !.outputResults = results]

runOutput(s) ==
    IF Len(s.processingResults) = 0 \/ Len(s.config.controls) = 0
    THEN s
    ELSE setOutputResults([s EXCEPT !.pc = "output"],
             generateAllOutputs(s.processingResults, s.config.controls, s.config.samples))

\* setProcessingResults; the subscriber renders the tabs of a non-empty
\* result map and calls runOutput.
setProcessingResults(s, results) ==
    With([s EXCEPT
             !.processingResults = results,
             !.activeGeneTab =
                 IF ~Truthy(s.activeGeneTab) /\ Len(results) > 0 THEN results[1].key ELSE @,
             !.tabs = IF Len(results) = 0 THEN @ ELSE MapKeys(results)],
         runOutput)

setGeneDataMap(s, dataMap) == [s EXCEPT !.geneDataMap = dataMap]

\* The try block of runProcessing once the gene records are built.
ProcessGrouped(s) ==
    IF processAllGenesThrows(s.geneDataMap, s.config.housekeeper)
    THEN [s EXCEPT !.pc = "lookupFailed"]
    ELSE With(processAllGenes(s.geneDataMap, s.config.housekeeper, s.config),
              LAMBDA results : setProcessingResults([s EXCEPT !.pc = "processed"], results))

\* Variant of runProcessing: the rows are added to the gene records the
\* state holds instead of to a new map.
runProcessingReusingMap(s) ==
    IF s.rawData = NoData \/ ~Truthy(s.config.housekeeper) \/ Len(s.config.samples) = 0
    THEN [s EXCEPT !.pc = "skipped", !.tabs = <<>>]
    ELSE IF extractGeneDataThrows(s.rawData)
    THEN [s EXCEPT !.pc = "detectFailed"]
    ELSE With(ExtractRows(s.geneDataMap, s.rawData.rows, 1, detectCtColumn(s.rawData)),
              LAMBDA geneMap :
                  ProcessGrouped(setGeneDataMap(s,
                      [i \in 1..Len(geneMap) |->
                          [key |-> geneMap[i].key,
                           value |-> [geneMap[i].value EXCEPT !.replicaGroups =
                                        groupIntoReplicas(geneMap[i].value.measurements,
                                            s.config.replicaCount, s.config.samples)]]])))

runProcessing(s) ==
    IF s.rawData = NoData \/ ~Truthy(s.config.housekeeper) \/ Len(s.config.samples) = 0
    THEN [s EXCEPT !.pc = "skipped", !.tabs = <<>>]
    ELSE IF extractGeneDataThrows(s.rawData)
    THEN [s EXCEPT !.pc = "detectFailed"]
    ELSE With(setGeneDataMap(s,
                  buildGeneDataWithGroups(s.rawData, s.config.replicaCount, s.config.samples)),
              ProcessGrouped)

\* setSamples; the subscriber calls runProcessing.
setSamples(s, samples) ==
    With([s EXCEPT !.config.samples = samples,
                   !.processingResults = <<>>,
                   !.outputResults = <<>>],
         runProcessing)

\* setControls notifies "samples-changed" as well.
setControls(s, controls) ==
    With([s EXCEPT !.config.controls = controls,
                   !.outputResults = <<>>],
         runProcessing)

\* Variant of setHousekeeper: the stored results are not cleared.
setHousekeeperKeepingResults(s, geneName) ==
    With([s EXCEPT !.config.housekeeper = geneName], runProcessing)

setHousekeeper(s, geneName) ==
    With([s EXCEPT !.config.housekeeper = geneName,
                   !.processingResults = <<>>,
                   !.outputResults = <<>>],
         runProcessing)

\* setReplicaCount notifies "config-changed", which no subscriber handles.
setReplicaCount(s, count) == [s EXCEPT !.config.replicaCount = count]

setActiveGeneTab(s, geneName) == [s EXCEPT !.activeGeneTab = geneName]

\* onDataLoaded: the sample names are generated for the replica count the
\* input element shows and written to the sample list; the processing
\* section is cleared last.
onDataLoaded(s) ==
    LET geneRowCount ==
            GeneRowCount(filterIgnoredRows(s.rawData).rows, FirstGene(s.availableGenes))
    IN  With(generateSampleNames(geneRowCount, getReplicaCount(s.replicaInput)),
             LAMBDA sampleNames :
                 [setSamples([s EXCEPT !.sampleList = sampleNames], sampleNames)
                      EXCEPT !.tabs = <<>>])

setRawData(s, data, genes) ==
    With([s EXCEPT !.rawData = data,
                   !.availableGenes = genes,
                   !.geneDataMap = <<>>,
                   !.processingResults = <<>>,
                   !.outputResults = <<>>,
                   !.validationErrors = <<>>],
         onDataLoaded)

\* handleFileProcessed on the dataset parsed from the chosen file.
handleFileProcessed(s, data) ==
    IF ~processFileAccepts(data) THEN s
    ELSE setRawData(s, data, extractGeneNames(data))

\* The part of handleReplicaCountChange after setReplicaCount.
RegenerateSamples(s, count) ==
    IF s.rawData # NoData /\ Len(s.availableGenes) > 0
    THEN LET geneRowCount == GeneRowCount(s.rawData.rows, FirstGene(s.availableGenes))
         IN  With(generateSampleNames(geneRowCount, count),
                  LAMBDA sampleNames :
                      setSamples([s EXCEPT !.sampleList = sampleNames], sampleNames))
    ELSE s

\* Variant of handleReplicaCountChange: the count is stored before it is validated.
handleReplicaCountChangeStoringFirst(s) ==
    LET count == getReplicaCount(s.replicaInput)
        validation == validateReplicaCount(count)
    IN  IF ~validation.isValid
        THEN setValidationErrors(setReplicaCount(s, count), validation.errors)
        ELSE With(setReplicaCount(clearValidationError(s, "replicaCount"), count),
                  LAMBDA s1 : RegenerateSamples(s1, count))

handleReplicaCountChange(s) ==
    LET count == getReplicaCount(s.replicaInput)
        validation == validateReplicaCount(count)
    IN  IF ~validation.isValid THEN setValidationErrors(s, validation.errors)
        ELSE With(setReplicaCount(clearValidationError(s, "replicaCount"), count),
                  LAMBDA s1 : RegenerateSamples(s1, count))

handleHousekeeperChange(s, geneName) ==
    LET validation == validateHousekeeper(geneName, s.availableGenes)
    IN  IF ~validation.isValid THEN setValidationErrors(s, validation.errors)
        ELSE setHousekeeper(clearValidationError(s, "housekeeper"), geneName)

handleSampleListChange(s) ==
    LET samples == getSampleList(s.sampleList)
        geneRowCount == GeneRowCount(s.rawData.rows, FirstGene(s.availableGenes))
        validation == validateSampleList(samples, geneRowCount, s.config.replicaCount)
    IN  IF s.rawData = NoData THEN s
        ELSE IF ~validation.isValid THEN setValidationErrors(s, validation.errors)
        ELSE With(samples, LAMBDA list : setSamples(clearValidationError(s, "sampleList"), list))

handleControlListChange(s) ==
    LET controls == getControlList(s.controlList)
        validation == validateControlList(controls, s.config.samples)
    IN  IF ~validation.isValid THEN setValidationErrors(s, validation.errors)
        ELSE With(controls,
                  LAMBDA list : setControls(clearValidationError(s, "controlList"), list))

handleTabChange(s, geneName) == setActiveGeneTab(s, geneName)

(***************************************************************************)
(* The files the user loads and the texts the user enters.                 *)
(***************************************************************************)
AppRows(gene, cts) == [i \in 1..MaxGeneRows |-> MkRow(gene, cts[((i - 1) % Len(cts)) + 1])]

\* GAPDH and TP53 with parsable CT values, ACTB with none.
AppDataA ==
    [title |-> <<"A">>,
     headers |-> <<NameHeader, CpHeader>>,
     rows |-> AppRows(GAPDH, <<Ct20, Ct22>>) \o AppRows(TP53, <<Ct25>>)
              \o AppRows(ACTB, <<CtNA>>)]

\* Another experiment: TP53 and ACTB, no GAPDH.
AppDataB ==
    [title |-> <<"B">>,
     headers |-> <<NameHeader, CpHeader>>,
     rows |-> AppRows(TP53, <<Ct25>>) \o AppRows(ACTB, <<Ct20>>)]

\* A file without data rows, which processFile rejects.
EmptyData == [title |-> <<"E">>, headers |-> <<NameHeader, CpHeader>>, rows |-> <<>>]

AppFiles == {AppDataA, AppDataB, NoCtData, EmptyData}

ReplicaTexts == { <<"1">>, <<"2">>, <<"1", "1">> }

\* What the text areas hold after an edit; the texts between two key strokes
\* are not told apart, so an input event may leave the same text.
SampleTexts == { <<"Sample 1", " ">> }

ControlTexts == { <<" ", "Sample 2">> }

(***************************************************************************)
(* The application as a state machine: one action per event.               *)
(***************************************************************************)
AppOf(s) ==
    [availableGenes |-> s.availableGenes, activeGeneTab |-> s.activeGeneTab,
     validationErrors |-> s.validationErrors, replicaInput |-> s.replicaInput,
     sampleList |-> s.sampleList, controlList |-> s.controlList, tabs |-> s.tabs,
     debounceTimer |-> s.debounceTimer]

\* The current state as one record.
Cur ==
    [rawData |-> rawData, config |-> config, geneDataMap |-> geneDataMap,
     processingResults |-> processingResults, outputResults |-> outputResults,
     pc |-> pc] @@ app

\* The state in which an event handler starts.
Started == [Cur EXCEPT !.pc = "idle"]

\* createInitialState and the constructor of App.
AppInit ==
    /\ rawData = NoData
    /\ config = [replicaCount |-> 3, housekeeper |-> <<>>, samples |-> <<>>, controls |-> <<>>]
    /\ geneDataMap = <<>>
    /\ processingResults = <<>>
    /\ outputResults = <<>>
    /\ app = FreshApp
    /\ pc = "idle"
    /\ error = ""
    /\ call = NoCall
    /\ ret = Null

\* The change event of the file input, once the file is read.
LoadFile ==
    \E data \in AppFiles :
        \E s \in {handleFileProcessed(Started, data)} :
            /\ rawData' = s.rawData
            /\ config' = s.config
            /\ geneDataMap' = s.geneDataMap
            /\ processingResults' = s.processingResults
            /\ outputResults' = s.outputResults
            /\ pc' = s.pc
            /\ app' = AppOf(s)
            /\ UNCHANGED <<error, call, ret>>

\* The change event of the replica-count input.
ChangeReplicaCount ==
    \E text \in ReplicaTexts :
        /\ text # app.replicaInput
        /\ \E s \in {handleReplicaCountChange(
                        [Started EXCEPT !.replicaInput = text])} :
               /\ rawData' = s.rawData
               /\ config' = s.config
               /\ geneDataMap' = s.geneDataMap
               /\ processingResults' = s.processingResults
               /\ outputResults' = s.outputResults
               /\ pc' = s.pc
               /\ app' = AppOf(s)
               /\ UNCHANGED <<error, call, ret>>

\* The change event of the housekeeper picker, which offers availableGenes.
SelectHousekeeper ==
    \E i \in 1..Len(app.availableGenes) :
        /\ app.availableGenes[i] # config.housekeeper
        /\ \E s \in {handleHousekeeperChange(Started,
                                            app.availableGenes[i])} :
               /\ rawData' = s.rawData
               /\ config' = s.config
               /\ geneDataMap' = s.geneDataMap
               /\ processingResults' = s.processingResults
               /\ outputResults' = s.outputResults
               /\ pc' = s.pc
               /\ app' = AppOf(s)
               /\ UNCHANGED <<error, call, ret>>

\* An input event of the sample list: the debounced function clears the one
\* timer of the App and starts a timeout for handleSampleListChange.
EditSampleList ==
    \E text \in SampleTexts :
        /\ app' = [app EXCEPT !.sampleList = text, !.debounceTimer = "sample"]
        /\ UNCHANGED <<Pipeline, pc, error, call, ret>>

\* An input event of the control list: the same timer, for handleControlListChange.
EditControlList ==
    \E text \in ControlTexts :
        /\ app' = [app EXCEPT !.controlList = text, !.debounceTimer = "control"]
        /\ UNCHANGED <<Pipeline, pc, error, call, ret>>

\* The pending timeout fires: the handler it was started for runs, then the
\* timer field is set to null.
TimerFires ==
    /\ app.debounceTimer # "none"
    /\ \E s \in {IF app.debounceTimer = "sample"
                  THEN handleSampleListChange(Started)
                  ELSE handleControlListChange(Started)} :
           /\ rawData' = s.rawData
           /\ config' = s.config
           /\ geneDataMap' = s.geneDataMap
           /\ processingResults' = s.processingResults
           /\ outputResults' = s.outputResults
           /\ pc' = s.pc
           /\ app' = [AppOf(s) EXCEPT !.debounceTimer = "none"]
           /\ UNCHANGED <<error, call, ret>>

\* A click on one of the rendered tabs.
ClickTab ==
    \E i \in 1..Len(app.tabs) :
        \E s \in {handleTabChange(Started, app.tabs[i])} :
            /\ rawData' = s.rawData
            /\ config' = s.config
            /\ geneDataMap' = s.geneDataMap
            /\ processingResults' = s.processingResults
            /\ outputResults' = s.outputResults
            /\ pc' = s.pc
            /\ app' = AppOf(s)
            /\ UNCHANGED <<error, call, ret>>

AppNext ==
    \/ LoadFile
    \/ ChangeReplicaCount
    \/ SelectHousekeeper
    \/ EditSampleList
    \/ EditControlList
    \/ TimerFires
    \/ ClickTab

AppSpec == AppInit /\ [][AppNext]_vars

(***************************************************************************)
(* Properties of the application.                                          *)
(***************************************************************************)
\* The last handler ran the pipeline to the end of processAllGenes.
PipelineRan == pc \in {"processed", "output"}

\* The state after runProcessing is called once more on the current state.
RunAgain == runProcessing(Cur)

C22_ControlsAmongSamplesAtOutput ==
    pc = "output" =>
        \A i \in 1..Len(config.controls) : Contains(config.samples, config.controls[i])

\* processAllGenes was called by the handler that ran last.
ProcessAllGenesCalled == pc \in {"lookupFailed", "processed", "output"}

\* C23: whenever the application has called processAllGenes (runProcessing got
\* past buildGeneDataWithGroups in the handler that ran last), config.housekeeper
\* is a key of the gene records grouped from the loaded dataset, so the lookup
\* failure is not raised.
C23_HousekeeperGroupedAtProcessing ==
    ProcessAllGenesCalled =>
        /\ MapHas(geneDataMap, config.housekeeper)
        /\ pc # "lookupFailed"

\* The step is a change event of the replica-count input whose value
\* validateReplicaCount rejects.
RejectedReplicaInput ==
    /\ app'.replicaInput # app.replicaInput
    /\ ~validateReplicaCount(getReplicaCount(app'.replicaInput)).isValid

\* C24: config.replicaCount is a whole number from 1 to 10 in every reachable
\* state, and a replica-count input that validateReplicaCount rejects leaves
\* config (replicaCount and samples included) and the three result maps as
\* they were.
C24_ReplicaCountValid ==
    /\ [](config.replicaCount \in 1..10)
    /\ [][RejectedReplicaInput =>
              UNCHANGED <<config, geneDataMap, processingResults, outputResults>>]_vars

\* The input shows a rejected value (11) while results computed for the
\* replica count 1 are stored.
C24_Witness ==
    /\ ~validateReplicaCount(getReplicaCount(app.replicaInput)).isValid
    /\ config.replicaCount = 1
    /\ Len(config.samples) = 2
    /\ Len(processingResults) > 0
    /\ Len(app.validationErrors) = 1
    /\ app.validationErrors[1].field = "replicaCount"

\* Each result map is what it was before the step or is empty.
UnchangedOrCleared ==
    /\ geneDataMap' = geneDataMap \/ geneDataMap' = <<>>
    /\ processingResults' = processingResults \/ processingResults' = <<>>
    /\ outputResults' = outputResults \/ outputResults' = <<>>

\* C25: when extractGeneData (detection failure) or processAllGenes (lookup
\* failure) throws inside runProcessing, the error is caught and nothing of
\* the failed run is committed: after the handler each of geneDataMap,
\* processingResults and outputResults is unchanged or cleared.
C25_NoPartialStateOnFailure ==
    [][pc' \in {"detectFailed", "lookupFailed"} => UnchangedOrCleared]_vars

\* processAllGenes applied to the gene records grouped from the current
\* dataset, replica count and samples, with the current housekeeper.
FreshProcessingResults ==
    processAllGenes(
        buildGeneDataWithGroups(rawData, config.replicaCount, config.samples),
        config.housekeeper, config)

\* C26: results are never stale.  After every event handler, processingResults
\* is empty or is processAllGenes of the gene records grouped from the current
\* rawData, replicaCount and samples with the current housekeeper, and
\* outputResults is empty or is generateAllOutputs of the current
\* processingResults, controls and samples.
C26_ResultsNeverStale ==
    /\ \/ processingResults = <<>>
       \/ /\ rawData # NoData
          /\ ~extractGeneDataThrows(rawData)
          /\ ~processAllGenesThrows(
                 buildGeneDataWithGroups(rawData, config.replicaCount, config.samples),
                 config.housekeeper)
          /\ processingResults = FreshProcessingResults
    /\ \/ outputResults = <<>>
       \/ outputResults =
              generateAllOutputs(processingResults, config.controls, config.samples)

\* Outputs are stored for a sample list the user typed (one sample where two
\* were generated) after the controls were set.
C26_Witness ==
    /\ Len(outputResults) > 0
    /\ Len(processingResults) > 0
    /\ config.replicaCount = 1
    /\ config.samples = <<"Sample 1">>
    /\ config.controls = <<"Sample 2">>

ReturnedOutputs ==
    IF Returned("generateGeneOutput") THEN {ret}
    ELSE IF Returned("generateAllOutputs") THEN {ret[i].value : i \in 1..Len(ret)}
    ELSE {}

\* The rows of an output that count for the control average.
PositiveControls(out) ==
    SelectSeq([i \in 1..Len(out.foldChangeRows) |-> i],
              LAMBDA i : /\ out.foldChangeRows[i].controlName # ""
                         /\ GtZero(out.foldChangeRows[i].controlFoldChange))

\* C28: in every output of generateGeneOutput with at least one control row of
\* positive fold change, the arithmetic mean of normalizedControl over the rows
\* with a non-empty controlName and a controlFoldChange > 0 is 1.
C28_QualifyingControlsAverageOne ==
    \A out \in ReturnedOutputs :
        LET rows == PositiveControls(out)
        IN  Len(rows) > 0 =>
                mean([j \in 1..Len(rows) |-> out.normalizedRows[rows[j]].normalizedControl])
                    = One

\* C29: in every application state with non-empty processingResults,
\* activeGeneTab names a gene that is a key of processingResults (so never the
\* current housekeeper, never a gene of a dataset loaded before).
C29_ActiveTabIsResultKey ==
    processingResults # <<>> => MapHas(processingResults, app.activeGeneTab)

\* The step runs the handler that a pending timeout was started for.
PendingHandlerRuns ==
    \E s \in {IF app.debounceTimer = "sample"
              THEN handleSampleListChange(Started)
              ELSE handleControlListChange(Started)} :
        /\ config' = s.config
        /\ processingResults' = s.processingResults
        /\ outputResults' = s.outputResults
        /\ app' = [AppOf(s) EXCEPT !.debounceTimer = "none"]

\* C30: no edit of the sample list or of the control list is lost: a timeout
\* pending for a field stays pending for that field (an input on the same field
\* restarts it) until it fires and runs that field's handler, also when the
\* other field is edited meanwhile.
C30_PendingEditIsHandled ==
    [][app.debounceTimer # "none" =>
           \/ app'.debounceTimer = app.debounceTimer
           \/ PendingHandlerRuns]_vars

====
